---- MODULE Spec2Model ----
(***************************************************************************)
(* Model of the collaborative editing engine of white-room:                *)
(*   core/domain/src/collaboration/lib/OTTransformer.ts                    *)
(*   core/domain/src/collaboration/lib/EditorState.ts                      *)
(*   core/domain/src/collaboration/lib/OperationHistory.ts                 *)
(*   core/domain/src/collaboration/lib/CursorTracker.ts                    *)
(*   core/domain/src/collaboration/collaboration.service.ts                *)
(*   core/domain/src/collaboration/collaboration.rateLimiter.ts            *)
(* and of the session fabric that core/api/src/plugins/websocket.ts calls. *)
(*                                                                         *)
(* Strings are sequences of one-character strings.  A null content and an  *)
(* empty content are both the empty sequence: the code reads content only  *)
(* through `content?.length || 0`, `!content` and string concatenation of  *)
(* a non-empty content, none of which tells them apart.                    *)
(*                                                                         *)
(* Left out of the state: EditorState's undoStack, redoStack and           *)
(* isTransforming, which the service never fills or reads, and the         *)
(* service's pendingOperations map, which is set to [] and deleted but     *)
(* never read.                                                             *)
(***************************************************************************)
EXTENDS Integers, Sequences, FiniteSets, TLC

VARIABLES
    editorStates,        \* Map<editorId, EditorState>
    operationHistories,  \* Map<editorId, OperationHistory>
    cursorTrackers,      \* Map<editorId, CursorTracker>
    editorSnapshots,     \* Map<editorId, EditorSnapshotDto>
    published,           \* what the running call has handed to eventBus.publish, in order
    lastCall,            \* the call being served: its name and arguments (for a batch
                         \* the operations its loop has reached and the content it
                         \* started from, for reset what it found)
    lastResult,          \* its outcome: "ok", "running" or the error raised
    batch,               \* position of applyOperationBatch in its loop
    appliedCount,        \* per editor: applyOperation calls that returned normally
    ot,                  \* what is looked at on its own: the inputs and results of
                         \* the transform functions, or an OperationHistory
    cursorBroadcastTimers, \* Map<`${editorId}:${userId}`, timeout handle>
    timeouts,            \* the runtime's timers: handle -> what setTimeout was given
                         \* and how far the timer has got
    invoked,             \* the callback invocations so far, in order
    now,                 \* Date.now()
    userLimits,          \* CollaborationRateLimiter: Map<userId, UserRateLimit>
    config,              \* CollaborationRateLimiter: RateLimitConfig
    allowedLog,          \* per user: the answers of isAllowed since its bucket was made
    clients,             \* session fabric: Map<sessionId, Connection>
    sessionsByDocument,  \* session fabric: Map<documentId, sessionId[]>
    sent,                \* transport.send calls of the running call, in order
    closed               \* transport.close calls of the running call, in order

engineVars == <<editorStates, operationHistories, cursorTrackers, editorSnapshots,
                published, lastCall, lastResult, batch, appliedCount>>

timerVars == <<cursorBroadcastTimers, timeouts, invoked>>

limiterVars == <<userLimits, config, allowedLog>>

fabricVars == <<clients, sessionsByDocument, sent, closed>>

\* what the engine's document and user operations never touch
restVars == <<timerVars, now, limiterVars, fabricVars>>

vars == <<engineVars, ot, restVars>>

-----------------------------------------------------------------------------
(* Bounds of the model *)

\* number of timers the runtime hands out
MaxTimers == 3

\* latest time the clock reaches while timers are watched, in ms
MaxTimerNow == 100

\* latest time the clock reaches while the rate limiter is watched, in ms
MaxLimiterNow == 11000

\* latest time the clock reaches while the quota of two users is watched, in ms
MaxQuotaNow == 20000

\* isAllowed calls per bucket
MaxCalls == 3

\* accepted operations kept on record while session churn is watched
MaxAccepted == 3

\* heartbeat ticks counted for one registration of a session
MaxTicks == 3

\* operations a second the limiter of the session fabric allows
FabricOpsPerSecond == 1

\* latest time the clock reaches while the session fabric is watched, in ms
MaxFabricNow == 1000

\* longest list of operations transformOperation is given to transform against
MaxAgainst == 2

\* most operations a history on its own holds
MaxHistory == 3

\* largest version the history reaches
MaxVersion == 2
\* most operations of an accepted batch
MaxBatch == 2
\* longest document of SpecOT
MaxDocLen == 3
\* largest position of an operation of SpecOT
MaxPos == 3
\* longest delete span of an operation of SpecOT
MaxDel == 2

-----------------------------------------------------------------------------
(* Strings *)

Chars == {"a", "b"}

Max(a, b) == IF a >= b THEN a ELSE b

\* s.slice(from, to) for 0 <= from, to (clamped to the length as in JS)
Slice(s, from, to) ==
    LET t == IF to > Len(s) THEN Len(s) ELSE to
    IN  IF from >= t THEN <<>> ELSE SubSeq(s, from + 1, t)

StrsOfLen(n) == [1..n -> Chars]

Strs(n) == UNION {StrsOfLen(k) : k \in 0..n}

\* UTF-16 code unit of the characters client ids are written with
CharCode(ch) ==
    CASE ch = "0" -> 48
      [] ch = "1" -> 49
      [] ch = "2" -> 50
      [] ch = "c" -> 99

\* a < b on JS strings: compare code units left to right, a proper prefix is smaller
RECURSIVE StrLess(_, _)
StrLess(a, b) ==
    IF b = <<>> THEN FALSE
    ELSE IF a = <<>> THEN TRUE
    ELSE IF CharCode(Head(a)) < CharCode(Head(b)) THEN TRUE
    ELSE IF CharCode(Head(a)) > CharCode(Head(b)) THEN FALSE
    ELSE StrLess(Tail(a), Tail(b))

-----------------------------------------------------------------------------
(* OperationDto (timestamp is informational and left out) *)

Op(id, type, position, content, length, clientId, version) ==
    [id |-> id, type |-> type, position |-> position, content |-> content,
     length |-> length, clientId |-> clientId, version |-> version]

-----------------------------------------------------------------------------
(* OTTransformer *)

\* mutant: the tie goes to the larger clientId
transformInsertInsert_LargerWins(op, against) ==
    LET opPos == op.position
        againstPos == against.position
    IN  IF opPos < againstPos THEN op
        ELSE IF opPos > againstPos
             THEN [op EXCEPT !.position = opPos + Len(against.content)]
        ELSE IF StrLess(against.clientId, op.clientId) THEN op
        ELSE [op EXCEPT !.position = opPos + Len(against.content)]

transformInsertInsert(op, against) ==
    LET opPos == op.position
        againstPos == against.position
    IN  IF opPos < againstPos THEN op
        ELSE IF opPos > againstPos
             THEN [op EXCEPT !.position = opPos + Len(against.content)]
        ELSE IF StrLess(op.clientId, against.clientId) THEN op
        ELSE [op EXCEPT !.position = opPos + Len(against.content)]

\* mutant: an insert inside the deleted range stays where it is
transformInsertDelete_NoClamp(op, against) ==
    LET opPos == op.position
        againstStart == against.position
        againstEnd == against.position + against.length
    IN  IF opPos <= againstStart THEN op
        ELSE IF opPos >= againstEnd
             THEN [op EXCEPT !.position = opPos - against.length]
        ELSE op

transformInsertDelete(op, against) ==
    LET opPos == op.position
        againstStart == against.position
        againstEnd == against.position + against.length
    IN  IF opPos <= againstStart THEN op
        ELSE IF opPos >= againstEnd
             THEN [op EXCEPT !.position = opPos - against.length]
        ELSE [op EXCEPT !.position = againstStart]

transformDeleteInsert(op, against) ==
    LET opStart == op.position
        opEnd == op.position + op.length
        againstPos == against.position
        insertLength == Len(against.content)
    IN  IF opEnd <= againstPos THEN op
        ELSE IF opStart >= againstPos
             THEN [op EXCEPT !.position = opStart + insertLength]
        ELSE [op EXCEPT !.length = op.length + insertLength]

\* mutant: an operation contained in against keeps its position
transformDeleteDelete_ContainedKeepsPosition(op, against) ==
    LET opStart == op.position
        opEnd == op.position + op.length
        againstStart == against.position
        againstEnd == against.position + against.length
    IN  IF opEnd <= againstStart THEN op
        ELSE IF opStart >= againstEnd
             THEN [op EXCEPT !.position = opStart - against.length]
        ELSE IF opStart <= againstStart /\ opEnd >= againstEnd
             THEN [op EXCEPT !.length = op.length - against.length]
        ELSE IF opStart >= againstStart /\ opEnd <= againstEnd
             THEN [op EXCEPT !.length = 0]
        ELSE IF opStart < againstStart /\ opEnd > againstStart
             THEN [op EXCEPT !.length = op.length - (opEnd - againstStart)]
        ELSE [op EXCEPT !.position = againstStart,
                        !.length = op.length - (againstEnd - opStart)]

transformDeleteDelete(op, against) ==
    LET opStart == op.position
        opEnd == op.position + op.length
        againstStart == against.position
        againstEnd == against.position + against.length
    IN  IF opEnd <= againstStart THEN op
        ELSE IF opStart >= againstEnd
             THEN [op EXCEPT !.position = opStart - against.length]
        ELSE IF opStart <= againstStart /\ opEnd >= againstEnd
             THEN [op EXCEPT !.length = op.length - against.length]
        ELSE IF opStart >= againstStart /\ opEnd <= againstEnd
             THEN [op EXCEPT !.position = againstStart, !.length = 0]
        ELSE IF opStart < againstStart /\ opEnd > againstStart
             THEN [op EXCEPT !.length = op.length - (opEnd - againstStart)]
        ELSE [op EXCEPT !.position = againstStart,
                        !.length = op.length - (againstEnd - opStart)]

transform(op, against) ==
    IF op.type = "insert" /\ against.type = "insert"
        THEN transformInsertInsert(op, against)
    ELSE IF op.type = "insert" /\ against.type = "delete"
        THEN transformInsertDelete(op, against)
    ELSE IF op.type = "delete" /\ against.type = "insert"
        THEN transformDeleteInsert(op, against)
    ELSE IF op.type = "delete" /\ against.type = "delete"
        THEN transformDeleteDelete(op, against)
    ELSE op

\* mutant: the fold stops after the first of the others
transformAgainstMany_FirstOnly(op, others) ==
    IF others = <<>> THEN op ELSE transform(op, Head(others))

RECURSIVE transformAgainstMany(_, _)
transformAgainstMany(op, others) ==
    IF others = <<>> THEN op
    ELSE transformAgainstMany(transform(op, Head(others)), Tail(others))

-----------------------------------------------------------------------------
(* EditorState *)

NewEditorState(initialContent) ==
    [content |-> initialContent, operations |-> <<>>, version |-> 0, mode |-> "active"]

\* mutant: the end of a delete is not checked against the content
EditorStateApply_DeleteEndFree(es, operation) ==
    IF es.mode = "disconnected"
        THEN [err |-> "OperationApplyError", es |-> es]
    ELSE IF operation.type = "insert"
        THEN IF operation.position < 0 \/ operation.position > Len(es.content)
                 THEN [err |-> "InvalidCursorPositionError", es |-> es]
             ELSE IF operation.content = <<>>
                 THEN [err |-> "OperationApplyError", es |-> es]
             ELSE [err |-> "none",
                   es |-> [es EXCEPT
                       !.content = Slice(es.content, 0, operation.position)
                                   \o operation.content
                                   \o Slice(es.content, operation.position, Len(es.content)),
                       !.operations = Append(es.operations, operation),
                       !.version = Max(es.version, operation.version + 1)]]
    ELSE IF operation.type = "delete"
        THEN LET deleteEnd == operation.position + operation.length
             IN  IF operation.position < 0 \/ operation.position > Len(es.content)
                     THEN [err |-> "InvalidCursorPositionError", es |-> es]
                 ELSE [err |-> "none",
                       es |-> [es EXCEPT
                           !.content = Slice(es.content, 0, operation.position)
                                       \o Slice(es.content, deleteEnd, Len(es.content)),
                           !.operations = Append(es.operations, operation),
                           !.version = Max(es.version, operation.version + 1)]]
    ELSE [err |-> "OperationApplyError", es |-> es]

\* EditorState.applyOperation: the error it throws ("none" when it returns) and
\* the state it leaves
EditorStateApply(es, operation) ==
    IF es.mode = "disconnected"
        THEN [err |-> "OperationApplyError", es |-> es]
    ELSE IF operation.type = "insert"
        THEN IF operation.position < 0 \/ operation.position > Len(es.content)
                 THEN [err |-> "InvalidCursorPositionError", es |-> es]
             ELSE IF operation.content = <<>>
                 THEN [err |-> "OperationApplyError", es |-> es]
             ELSE [err |-> "none",
                   es |-> [es EXCEPT
                       !.content = Slice(es.content, 0, operation.position)
                                   \o operation.content
                                   \o Slice(es.content, operation.position, Len(es.content)),
                       !.operations = Append(es.operations, operation),
                       !.version = Max(es.version, operation.version + 1)]]
    ELSE IF operation.type = "delete"
        THEN LET deleteEnd == operation.position + operation.length
             IN  IF operation.position < 0 \/ deleteEnd > Len(es.content)
                     THEN [err |-> "InvalidCursorPositionError", es |-> es]
                 ELSE [err |-> "none",
                       es |-> [es EXCEPT
                           !.content = Slice(es.content, 0, operation.position)
                                       \o Slice(es.content, deleteEnd, Len(es.content)),
                           !.operations = Append(es.operations, operation),
                           !.version = Max(es.version, operation.version + 1)]]
    ELSE [err |-> "OperationApplyError", es |-> es]

-----------------------------------------------------------------------------
(* OperationHistory *)

NewOperationHistory == [operations |-> <<>>, version |-> 0]

\* mutant: the version is set to the operation's, not to the one after it
addOperation_NoIncrement(h, operation) ==
    [operations |-> Append(h.operations, operation),
     version |-> Max(h.version, operation.version)]

addOperation(h, operation) ==
    [operations |-> Append(h.operations, operation),
     version |-> Max(h.version, operation.version + 1)]

\* mutant: the operations are dropped and the version is kept
HistoryClear_KeepVersion(h) == [operations |-> <<>>, version |-> h.version]

HistoryClear(h) == [operations |-> <<>>, version |-> 0]

RECURSIVE addOperations(_, _)
addOperations(h, ops) ==
    IF ops = <<>> THEN h ELSE addOperations(addOperation(h, Head(ops)), Tail(ops))

\* mutant: the operations are replaced and the version is kept
rebase_VersionKept(h, fromVersion, toVersion, newOperations) ==
    [operations |-> SelectSeq(h.operations, LAMBDA op : op.version < fromVersion)
                    \o newOperations,
     version |-> h.version]

rebase(h, fromVersion, toVersion, newOperations) ==
    [operations |-> SelectSeq(h.operations, LAMBDA op : op.version < fromVersion)
                    \o newOperations,
     version |-> toVersion]

-----------------------------------------------------------------------------
(* CursorTracker: remoteUsers is a map userId -> RemoteUserDto; name, color *)
(* and lastSeen are carried along by the code and never read by it.         *)

Null == [isNull |-> TRUE]

\* Map.set / Map.delete on a function whose domain is the set of keys
MapSet(m, k, v) == [x \in (DOMAIN m) \cup {k} |-> IF x = k THEN v ELSE m[x]]

MapDelete(m, k) == [x \in (DOMAIN m) \ {k} |-> m[x]]

TrackerAddRemoteUser(t, user) == MapSet(t, user.id, user)

TrackerRemoveRemoteUser(t, userId) == MapDelete(t, userId)

TrackerUpdateCursor(t, userId, cursor) ==
    IF userId \in DOMAIN t THEN [t EXCEPT ![userId].cursor = cursor] ELSE t

TrackerUpdateSelection(t, userId, selection) ==
    IF userId \in DOMAIN t THEN [t EXCEPT ![userId].selection = selection] ELSE t

getActiveRemoteUsers(t) == {u \in DOMAIN t : t[u].isActive}

clearAllCursors(t) ==
    [u \in DOMAIN t |-> [t[u] EXCEPT !.cursor = Null, !.selection = Null]]

-----------------------------------------------------------------------------
(* CursorTracker.transformCursorForOperation *)

\* mutant: a cursor inside the deleted range stays where it is
transformCursorForOperation_NoClamp(cursor, operation) ==
    LET line == cursor.line
        column == cursor.column
    IN  IF operation.type = "insert"
            THEN IF line = 0 /\ column >= operation.position
                     THEN [cursor EXCEPT !.column = column + Len(operation.content)]
                     ELSE cursor
        ELSE IF operation.type = "delete"
            THEN LET deleteEnd == operation.position + operation.length
                 IN  IF line = 0 /\ column >= deleteEnd
                         THEN [cursor EXCEPT
                                  !.column = Max(operation.position, column - operation.length)]
                     ELSE cursor
        ELSE cursor

transformCursorForOperation(cursor, operation) ==
    LET line == cursor.line
        column == cursor.column
    IN  IF operation.type = "insert"
            THEN IF line = 0 /\ column >= operation.position
                     THEN [cursor EXCEPT !.column = column + Len(operation.content)]
                     ELSE cursor
        ELSE IF operation.type = "delete"
            THEN LET deleteEnd == operation.position + operation.length
                 IN  IF line = 0 /\ column >= deleteEnd
                         THEN [cursor EXCEPT
                                  !.column = Max(operation.position, column - operation.length)]
                     ELSE IF line = 0 /\ column > operation.position /\ column < deleteEnd
                         THEN [cursor EXCEPT !.column = operation.position]
                     ELSE cursor
        ELSE cursor

-----------------------------------------------------------------------------
(* EditorState, continued *)

\* mutant: setContent keeps the version
EditorStateSetContent_KeepsVersion(es, content) ==
    [es EXCEPT !.content = content, !.operations = <<>>]

EditorStateSetContent(es, content) ==
    [es EXCEPT !.content = content, !.operations = <<>>, !.version = 0]

EditorStateReset(es) ==
    [content |-> <<>>, operations |-> <<>>, version |-> 0, mode |-> "active"]

-----------------------------------------------------------------------------
(* CollaborationService: inputs *)

\* OperationBatchSize.MAX
BatchSizeMax == 100

Editors == {"e1"}

Users == {"u1", "u2"}

Clients == {<<"c", "1">>}

Modes == {"active", "read_only", "disconnected"}

\* the documents callers start from or set
Contents == {<<>>, <<"a">>}

\* the positions operations name: inside and beyond the documents reached
Positions == 0..MaxVersion

\* the operations callers submit: inserts of "b" and deletes of one character,
\* at positions inside and beyond the documents, at every version
Ops ==
    {Op("o", "insert", p, <<"b">>, 0, cl, v) :
        p \in Positions, cl \in Clients, v \in 0..MaxVersion}
    \cup
    {Op("o", "delete", p, <<>>, 1, cl, v) :
        p \in Positions, cl \in Clients, v \in 0..MaxVersion}

Cursor(line, column) == [isNull |-> FALSE, line |-> line, column |-> column]

Cursors == {Null, Cursor(0, 1)}

Selections == {Null, [isNull |-> FALSE, start |-> Cursor(0, 0), end |-> Cursor(0, 1)]}

RemoteUsers ==
    {[id |-> u, cursor |-> c, selection |-> Null, isActive |-> a] :
        u \in Users, c \in Cursors, a \in BOOLEAN}

\* the batch sizes callers submit: none, accepted ones, and one above the limit
BatchSizes == (0..MaxBatch) \cup {BatchSizeMax + 1}

-----------------------------------------------------------------------------
(* CollaborationService: getters *)

Initialized(e) == e \in DOMAIN editorStates

getEditorContent(e) == editorStates[e].content

getEditorVersion(e) == operationHistories[e].version

getOperationHistory(e) == operationHistories[e].operations

getEditorMode(e) == editorStates[e].mode

getRemoteUsers(e) == getActiveRemoteUsers(cursorTrackers[e])

HasSnapshot(e) == e \in DOMAIN editorSnapshots

-----------------------------------------------------------------------------
(* CollaborationService: operations *)

\* an entry of the event bus: the event, and the history version and content a
\* subscriber reads from the service when publish hands it the event
Published(e, event, hist, es) ==
    [event |-> event, atVersion |-> hist.version, atContent |-> es.content]

OperationAppliedEvent(e, operation) ==
    [type |-> "OperationAppliedEvent", editorId |-> e, operationId |-> operation.id,
     clientId |-> operation.clientId, version |-> operation.version]

OperationBatchReceivedEvent(e, clientId, count, baseVersion) ==
    [type |-> "OperationBatchReceivedEvent", editorId |-> e, clientId |-> clientId,
     operationCount |-> count, baseVersion |-> baseVersion]

\* mutant: only an operation ahead of the history is a version conflict
ServiceApply_StaleAccepted(e, operation) ==
    LET es == editorStates[e]
        history == operationHistories[e]
        r == EditorStateApply(es, operation)
        h2 == addOperation(history, operation)
    IN  IF operation.version > history.version
            THEN [err |-> "VersionConflictError", es |-> es, history |-> history,
                  events |-> <<>>]
        ELSE IF r.err # "none"
            THEN [err |-> "OperationApplyError", es |-> r.es, history |-> history,
                  events |-> <<>>]
        ELSE [err |-> "none", es |-> r.es, history |-> h2,
              events |-> <<Published(e, OperationAppliedEvent(e, operation), h2, r.es)>>]

\* mutant: the event is published before the operation is applied and appended
ServiceApply_PublishFirst(e, operation) ==
    LET es == editorStates[e]
        history == operationHistories[e]
        r == EditorStateApply(es, operation)
        h2 == addOperation(history, operation)
    IN  IF operation.version # history.version
            THEN [err |-> "VersionConflictError", es |-> es, history |-> history,
                  events |-> <<>>]
        ELSE IF r.err # "none"
            THEN [err |-> "OperationApplyError", es |-> r.es, history |-> history,
                  events |-> <<>>]
        ELSE [err |-> "none", es |-> r.es, history |-> h2,
              events |-> <<Published(e, OperationAppliedEvent(e, operation), history, es)>>]

\* applyOperation on an initialized editor: the error raised ("none" when it
\* returns), the EditorState and OperationHistory it leaves, what it publishes
ServiceApply(e, operation) ==
    LET es == editorStates[e]
        history == operationHistories[e]
        r == EditorStateApply(es, operation)
        h2 == addOperation(history, operation)
    IN  IF operation.version # history.version
            THEN [err |-> "VersionConflictError", es |-> es, history |-> history,
                  events |-> <<>>]
        ELSE IF r.err # "none"
            THEN [err |-> "OperationApplyError", es |-> r.es, history |-> history,
                  events |-> <<>>]
        ELSE [err |-> "none", es |-> r.es, history |-> h2,
              events |-> <<Published(e, OperationAppliedEvent(e, operation), h2, r.es)>>]

OTIdle == [phase |-> "idle"]

EngineIdle ==
    /\ editorStates = <<>>
    /\ operationHistories = <<>>
    /\ cursorTrackers = <<>>
    /\ editorSnapshots = <<>>
    /\ published = <<>>
    /\ lastCall = [name |-> "none"]
    /\ lastResult = "ok"
    /\ batch = [active |-> FALSE]
    /\ appliedCount = <<>>

OperationConflictEvent(e, operation, againstOp) ==
    [type |-> "OperationConflictEvent", editorId |-> e, operationId |-> operation.id,
     conflictingOperationId |-> againstOp.id]

\* mutant: the operations of the operation's own client are transformed against too
RECURSIVE transformOperationLoop_NoSkip(_, _, _, _, _)
transformOperationLoop_NoSkip(e, operation, transformed, againstOperations, events) ==
    IF againstOperations = <<>> THEN [op |-> transformed, events |-> events]
    ELSE LET againstOp == Head(againstOperations)
             result == transform(transformed, againstOp)
             differs == \/ result.position # operation.position
                        \/ result.length # operation.length
                        \/ result.content # operation.content
         IN  transformOperationLoop_NoSkip(e, operation, result, Tail(againstOperations),
                 IF differs
                     THEN Append(events, OperationConflictEvent(e, operation, againstOp))
                     ELSE events)

\* the loop of transformOperation over the rest of againstOperations
RECURSIVE transformOperationLoop(_, _, _, _, _)
transformOperationLoop(e, operation, transformed, againstOperations, events) ==
    IF againstOperations = <<>> THEN [op |-> transformed, events |-> events]
    ELSE LET againstOp == Head(againstOperations)
             result == transform(transformed, againstOp)
             differs == \/ result.position # operation.position
                        \/ result.length # operation.length
                        \/ result.content # operation.content
         IN  IF againstOp.clientId # operation.clientId
                 THEN transformOperationLoop(e, operation, result, Tail(againstOperations),
                          IF differs
                              THEN Append(events, OperationConflictEvent(e, operation, againstOp))
                              ELSE events)
                 ELSE transformOperationLoop(e, operation, transformed,
                          Tail(againstOperations), events)

\* transformOperation: the operation returned and the events published
transformOperation(e, operation, againstOperations) ==
    transformOperationLoop(e, operation, operation, againstOperations, <<>>)

Idle == ~batch.active

NoBatch == [active |-> FALSE]

\* mutant: the editor is created anew on every call
initializeEditor_Clobber(e, initialContent) ==
    /\ Idle
    /\ lastCall' = [name |-> "initializeEditor", editorId |-> e, content |-> initialContent]
    /\ lastResult' = "ok"
    /\ published' = <<>>
    /\ editorStates' = MapSet(editorStates, e, NewEditorState(initialContent))
    /\ operationHistories' = MapSet(operationHistories, e, NewOperationHistory)
    /\ cursorTrackers' = MapSet(cursorTrackers, e, <<>>)
    /\ appliedCount' = MapSet(appliedCount, e, 0)
    /\ UNCHANGED <<editorSnapshots, batch, ot, restVars>>

initializeEditor(e, initialContent) ==
    /\ Idle
    /\ lastCall' = [name |-> "initializeEditor", editorId |-> e, content |-> initialContent]
    /\ lastResult' = "ok"
    /\ published' = <<>>
    /\ IF ~Initialized(e)
           THEN /\ editorStates' = MapSet(editorStates, e, NewEditorState(initialContent))
                /\ operationHistories' = MapSet(operationHistories, e, NewOperationHistory)
                /\ cursorTrackers' = MapSet(cursorTrackers, e, <<>>)
                /\ appliedCount' = MapSet(appliedCount, e, 0)
           ELSE UNCHANGED <<editorStates, operationHistories, cursorTrackers, appliedCount>>
    /\ UNCHANGED <<editorSnapshots, batch, ot, restVars>>

applyOperation(e, operation) ==
    /\ Idle
    /\ lastCall' = [name |-> "applyOperation", editorId |-> e, operation |-> operation]
    /\ IF ~Initialized(e)
           THEN /\ lastResult' = "CollaborationDisabledError"
                /\ published' = <<>>
                /\ UNCHANGED <<editorStates, operationHistories, appliedCount>>
           ELSE /\ getEditorVersion(e) < MaxVersion
                /\ LET r == ServiceApply(e, operation)
                   IN  /\ lastResult' = IF r.err = "none" THEN "ok" ELSE r.err
                       /\ published' = r.events
                       /\ editorStates' = [editorStates EXCEPT ![e] = r.es]
                       /\ operationHistories' = [operationHistories EXCEPT ![e] = r.history]
                       /\ appliedCount' = [appliedCount EXCEPT
                              ![e] = IF r.err = "none" THEN @ + 1 ELSE @]
    /\ UNCHANGED <<cursorTrackers, editorSnapshots, batch, ot, restVars>>

\* mutant: only the upper limit of the batch size is checked
applyOperationBatch_EmptyAccepted(e, clientId, baseVersion, count) ==
    /\ Idle
    /\ lastCall' = [name |-> "applyOperationBatch", editorId |-> e, clientId |-> clientId,
                    baseVersion |-> baseVersion, count |-> count, operations |-> <<>>,
                    contentBefore |-> IF Initialized(e) THEN getEditorContent(e) ELSE <<>>]
    /\ published' = <<>>
    /\ IF ~Initialized(e)
           THEN lastResult' = "CollaborationDisabledError" /\ batch' = NoBatch
       ELSE IF baseVersion # getEditorVersion(e)
           THEN lastResult' = "VersionConflictError" /\ batch' = NoBatch
       ELSE IF count > BatchSizeMax
           THEN lastResult' = "OperationBatchValidationError" /\ batch' = NoBatch
       ELSE /\ getEditorVersion(e) + count <= MaxVersion
            /\ lastResult' = "running"
            /\ batch' = [active |-> TRUE, editorId |-> e, clientId |-> clientId,
                         baseVersion |-> baseVersion, count |-> count, done |-> 0]
    /\ UNCHANGED <<editorStates, operationHistories, cursorTrackers, editorSnapshots,
                   appliedCount, ot, restVars>>

\* applyOperationBatch up to its loop: the checks of base version and size
applyOperationBatch(e, clientId, baseVersion, count) ==
    /\ Idle
    /\ lastCall' = [name |-> "applyOperationBatch", editorId |-> e, clientId |-> clientId,
                    baseVersion |-> baseVersion, count |-> count, operations |-> <<>>,
                    contentBefore |-> IF Initialized(e) THEN getEditorContent(e) ELSE <<>>]
    /\ published' = <<>>
    /\ IF ~Initialized(e)
           THEN lastResult' = "CollaborationDisabledError" /\ batch' = NoBatch
       ELSE IF baseVersion # getEditorVersion(e)
           THEN lastResult' = "VersionConflictError" /\ batch' = NoBatch
       ELSE IF count = 0 \/ count > BatchSizeMax
           THEN lastResult' = "OperationBatchValidationError" /\ batch' = NoBatch
       ELSE /\ getEditorVersion(e) + count <= MaxVersion
            /\ lastResult' = "running"
            /\ batch' = [active |-> TRUE, editorId |-> e, clientId |-> clientId,
                         baseVersion |-> baseVersion, count |-> count, done |-> 0]
    /\ UNCHANGED <<editorStates, operationHistories, cursorTrackers, editorSnapshots,
                   appliedCount, ot, restVars>>

\* mutant: a batch whose operation fails is rolled back to where it started
applyOperationBatchStep_RollBack(operation) ==
    /\ batch.active
    /\ LET e == batch.editorId
           r == ServiceApply(e, operation)
           last == batch.done + 1 = batch.count
           h == operationHistories[e]
       IN  /\ lastCall' = [lastCall EXCEPT !.operations = Append(@, operation)]
           /\ IF r.err # "none"
                  THEN /\ lastResult' = r.err
                       /\ published' = published
                       /\ batch' = NoBatch
                       /\ editorStates' = [editorStates EXCEPT
                              ![e].content = lastCall.contentBefore]
                       /\ operationHistories' = [operationHistories EXCEPT
                              ![e] = [operations |-> SubSeq(h.operations, 1, batch.baseVersion),
                                      version |-> batch.baseVersion]]
                       /\ appliedCount' = [appliedCount EXCEPT ![e] = batch.baseVersion]
              ELSE /\ editorStates' = [editorStates EXCEPT ![e] = r.es]
                   /\ operationHistories' = [operationHistories EXCEPT ![e] = r.history]
                   /\ appliedCount' = [appliedCount EXCEPT ![e] = @ + 1]
                   /\ lastResult' = IF last THEN "ok" ELSE "running"
                   /\ published' = published \o r.events \o
                          (IF last
                               THEN <<Published(e, OperationBatchReceivedEvent(e,
                                        batch.clientId, batch.count, batch.baseVersion),
                                        r.history, r.es)>>
                               ELSE <<>>)
                   /\ batch' = IF last THEN NoBatch ELSE [batch EXCEPT !.done = @ + 1]
    /\ UNCHANGED <<cursorTrackers, editorSnapshots, ot, restVars>>

\* one round of the loop of applyOperationBatch, on the next operation of the
\* batch; the round of the last operation goes on to publish the batch event,
\* a round that throws ends the call
applyOperationBatchStep(operation) ==
    /\ batch.active
    /\ LET e == batch.editorId
           r == ServiceApply(e, operation)
           last == batch.done + 1 = batch.count
       IN  /\ lastCall' = [lastCall EXCEPT !.operations = Append(@, operation)]
           /\ editorStates' = [editorStates EXCEPT ![e] = r.es]
           /\ operationHistories' = [operationHistories EXCEPT ![e] = r.history]
           /\ appliedCount' = [appliedCount EXCEPT
                  ![e] = IF r.err = "none" THEN @ + 1 ELSE @]
           /\ IF r.err # "none"
                  THEN /\ lastResult' = r.err
                       /\ published' = published
                       /\ batch' = NoBatch
              ELSE IF last
                  THEN /\ lastResult' = "ok"
                       /\ published' = published \o r.events \o
                              <<Published(e, OperationBatchReceivedEvent(e, batch.clientId,
                                    batch.count, batch.baseVersion), r.history, r.es)>>
                       /\ batch' = NoBatch
              ELSE /\ lastResult' = "running"
                   /\ published' = published \o r.events
                   /\ batch' = [batch EXCEPT !.done = @ + 1]
    /\ UNCHANGED <<cursorTrackers, editorSnapshots, ot, restVars>>

addRemoteUser(e, user) ==
    /\ Idle
    /\ lastCall' = [name |-> "addRemoteUser", editorId |-> e, user |-> user]
    /\ IF ~Initialized(e)
           THEN /\ lastResult' = "CollaborationDisabledError"
                /\ published' = <<>>
                /\ UNCHANGED cursorTrackers
           ELSE /\ lastResult' = "ok"
                /\ cursorTrackers' = [cursorTrackers EXCEPT
                       ![e] = TrackerAddRemoteUser(@, user)]
                /\ published' = <<Published(e,
                       [type |-> "RemoteUserConnectedEvent", editorId |-> e,
                        userId |-> user.id],
                       operationHistories[e], editorStates[e])>>
    /\ UNCHANGED <<editorStates, operationHistories, editorSnapshots, batch,
                   appliedCount, ot, restVars>>

removeRemoteUser(e, userId) ==
    /\ Idle
    /\ lastCall' = [name |-> "removeRemoteUser", editorId |-> e, userId |-> userId]
    /\ IF ~Initialized(e)
           THEN /\ lastResult' = "CollaborationDisabledError"
                /\ published' = <<>>
                /\ UNCHANGED cursorTrackers
           ELSE /\ lastResult' = "ok"
                /\ cursorTrackers' = [cursorTrackers EXCEPT
                       ![e] = TrackerRemoveRemoteUser(@, userId)]
                /\ published' = <<Published(e,
                       [type |-> "RemoteUserDisconnectedEvent", editorId |-> e,
                        userId |-> userId],
                       operationHistories[e], editorStates[e])>>
    /\ UNCHANGED <<editorStates, operationHistories, editorSnapshots, batch,
                   appliedCount, ot, restVars>>

\* cursor and selection of the broadcast are valid CursorPositionDto / SelectionDto
\* or null, so the schema parse returns them
updateRemoteUserCursor(e, userId, cursor, selection) ==
    /\ Idle
    /\ lastCall' = [name |-> "updateRemoteUserCursor", editorId |-> e, userId |-> userId,
                    cursor |-> cursor, selection |-> selection]
    /\ IF ~Initialized(e)
           THEN /\ lastResult' = "CollaborationDisabledError"
                /\ published' = <<>>
                /\ UNCHANGED cursorTrackers
       ELSE IF userId \notin DOMAIN cursorTrackers[e]
           THEN /\ lastResult' = "InvalidCursorPositionError"
                /\ published' = <<>>
                /\ UNCHANGED cursorTrackers
       ELSE LET t0 == cursorTrackers[e]
                t1 == IF cursor # Null THEN TrackerUpdateCursor(t0, userId, cursor) ELSE t0
                t2 == IF selection # Null
                          THEN TrackerUpdateSelection(t1, userId, selection) ELSE t1
            IN  /\ lastResult' = "ok"
                /\ cursorTrackers' = [cursorTrackers EXCEPT ![e] = t2]
                /\ published' = <<Published(e,
                       [type |-> "CursorUpdatedEvent", editorId |-> e, clientId |-> userId],
                       operationHistories[e], editorStates[e])>>
    /\ UNCHANGED <<editorStates, operationHistories, editorSnapshots, batch,
                   appliedCount, ot, restVars>>

\* mutant: the history is cleared with the EditorState's operations and version
setEditorContent_ClearsHistory(e, content) ==
    /\ Idle
    /\ lastCall' = [name |-> "setEditorContent", editorId |-> e, content |-> content]
    /\ published' = <<>>
    /\ IF ~Initialized(e)
           THEN lastResult' = "CollaborationDisabledError"
                /\ UNCHANGED <<editorStates, operationHistories>>
           ELSE /\ lastResult' = "ok"
                /\ editorStates' = [editorStates EXCEPT
                       ![e] = EditorStateSetContent(@, content)]
                /\ operationHistories' = [operationHistories EXCEPT
                       ![e] = HistoryClear(@)]
    /\ UNCHANGED <<cursorTrackers, editorSnapshots, batch, appliedCount, ot, restVars>>

setEditorContent(e, content) ==
    /\ Idle
    /\ lastCall' = [name |-> "setEditorContent", editorId |-> e, content |-> content]
    /\ published' = <<>>
    /\ IF ~Initialized(e)
           THEN lastResult' = "CollaborationDisabledError" /\ UNCHANGED editorStates
           ELSE /\ lastResult' = "ok"
                /\ editorStates' = [editorStates EXCEPT
                       ![e] = EditorStateSetContent(@, content)]
    /\ UNCHANGED <<operationHistories, cursorTrackers, editorSnapshots, batch,
                   appliedCount, ot, restVars>>

setEditorMode(e, mode) ==
    /\ Idle
    /\ lastCall' = [name |-> "setEditorMode", editorId |-> e, mode |-> mode]
    /\ published' = <<>>
    /\ IF ~Initialized(e)
           THEN lastResult' = "CollaborationDisabledError" /\ UNCHANGED editorStates
           ELSE /\ lastResult' = "ok"
                /\ editorStates' = [editorStates EXCEPT ![e].mode = mode]
    /\ UNCHANGED <<operationHistories, cursorTrackers, editorSnapshots, batch,
                   appliedCount, ot, restVars>>

\* the snapshot's id (a fresh snowflake id) and timestamp are left out
\* mutant: the snapshot takes the version the EditorState counts for itself
createSnapshot_StateVersion(e, clientId) ==
    /\ Idle
    /\ published' = <<>>
    /\ IF ~Initialized(e)
           THEN /\ lastResult' = "CollaborationDisabledError"
                /\ lastCall' = [name |-> "createSnapshot", editorId |-> e,
                                clientId |-> clientId, returned |-> Null]
                /\ UNCHANGED editorSnapshots
           ELSE LET snapshot == [content |-> editorStates[e].content,
                                 version |-> editorStates[e].version,
                                 clientId |-> clientId]
                IN  /\ lastResult' = "ok"
                    /\ editorSnapshots' = MapSet(editorSnapshots, e, snapshot)
                    /\ lastCall' = [name |-> "createSnapshot", editorId |-> e,
                                    clientId |-> clientId, returned |-> snapshot]
    /\ UNCHANGED <<editorStates, operationHistories, cursorTrackers, batch,
                   appliedCount, ot, restVars>>

\* the snapshot's id and timestamp are left out; what is returned is the
\* object that is stored
createSnapshot(e, clientId) ==
    /\ Idle
    /\ published' = <<>>
    /\ IF ~Initialized(e)
           THEN /\ lastResult' = "CollaborationDisabledError"
                /\ lastCall' = [name |-> "createSnapshot", editorId |-> e,
                                clientId |-> clientId, returned |-> Null]
                /\ UNCHANGED editorSnapshots
           ELSE LET snapshot == [content |-> getEditorContent(e),
                                 version |-> getEditorVersion(e),
                                 clientId |-> clientId]
                IN  /\ lastResult' = "ok"
                    /\ editorSnapshots' = MapSet(editorSnapshots, e, snapshot)
                    /\ lastCall' = [name |-> "createSnapshot", editorId |-> e,
                                    clientId |-> clientId, returned |-> snapshot]
    /\ UNCHANGED <<editorStates, operationHistories, cursorTrackers, batch,
                   appliedCount, ot, restVars>>

\* a call of transformOperation: it reads no state of the service (the editor
\* need not exist), returns the folded operation and publishes the conflicts
transformOperationCall(e, operation, againstOperations) ==
    /\ Idle
    /\ LET r == transformOperation(e, operation, againstOperations)
       IN  /\ lastCall' = [name |-> "transformOperation", editorId |-> e,
                           operation |-> operation,
                           againstOperations |-> againstOperations,
                           returned |-> r.op]
           /\ published' = [i \in 1..Len(r.events) |-> [event |-> r.events[i]]]
    /\ lastResult' = "ok"
    /\ UNCHANGED <<editorStates, operationHistories, cursorTrackers, editorSnapshots,
                   batch, appliedCount, ot, restVars>>

-----------------------------------------------------------------------------
(* Cursor-broadcast timers of the service, with the runtime's setTimeout and *)
(* clearTimeout.  A timer is pending until it fires or is cleared; when it   *)
(* fires its function builds the broadcast, calls the callback and awaits    *)
(* it ("running"), and after the await deletes the map entry of its key.     *)

CursorBroadcastIntervalDefaultMs == 75

\* the characters of the ids used as editorId and userId
IdChars(id) ==
    CASE id = "e1" -> <<"e", "1">>
      [] id = "e10" -> <<"e", "1", "0">>
      [] id = "u1" -> <<"u", "1">>
      [] id = "u2" -> <<"u", "2">>

\* `${editorId}:${userId}`
TimerId(editorId, userId) == IdChars(editorId) \o <<":">> \o IdChars(userId)

\* String.prototype.startsWith
startsWith(str, prefix) ==
    /\ Len(prefix) <= Len(str)
    /\ SubSeq(str, 1, Len(prefix)) = prefix

\* setTimeout: the handle of the new timer is its index
setTimeout(ts, timerId, userId, cursor, selection, delay) ==
    Append(ts, [timerId |-> timerId, clientId |-> userId, cursor |-> cursor,
                selection |-> selection, due |-> now + delay, state |-> "pending"])

\* clearTimeout: cancels a pending timer, and does nothing to one that has fired
clearTimeout(ts, timeoutId) ==
    [ts EXCEPT ![timeoutId].state = IF @ = "pending" THEN "cancelled" ELSE @]

TimersIdle ==
    /\ cursorBroadcastTimers = <<>>
    /\ timeouts = <<>>
    /\ invoked = <<>>
    /\ now = 0

scheduleCursorBroadcast(editorId, userId, cursor, selection) ==
    /\ Idle
    /\ Len(timeouts) < MaxTimers
    /\ LET timerId == TimerId(editorId, userId)
           cleared == IF timerId \in DOMAIN cursorBroadcastTimers
                          THEN clearTimeout(timeouts, cursorBroadcastTimers[timerId])
                          ELSE timeouts
       IN  /\ timeouts' = setTimeout(cleared, timerId, userId, cursor, selection,
                                     CursorBroadcastIntervalDefaultMs)
           /\ cursorBroadcastTimers' =
                  MapSet(cursorBroadcastTimers, timerId, Len(timeouts) + 1)
    /\ lastCall' = [name |-> "scheduleCursorBroadcast", editorId |-> editorId,
                    userId |-> userId]
    /\ lastResult' = "ok"
    /\ published' = <<>>
    /\ UNCHANGED <<editorStates, operationHistories, cursorTrackers, editorSnapshots,
                   batch, appliedCount, ot, invoked, now, limiterVars, fabricVars>>

\* the runtime fires a pending timer that is due: the timer function builds the
\* CursorBroadcastDto from the arguments of its own call and calls the callback
cursorBroadcastTimerFires(timeoutId) ==
    /\ timeoutId \in DOMAIN timeouts
    /\ timeouts[timeoutId].state = "pending"
    /\ now >= timeouts[timeoutId].due
    /\ timeouts' = [timeouts EXCEPT ![timeoutId].state = "running"]
    /\ invoked' = Append(invoked,
           [timeout |-> timeoutId, timerId |-> timeouts[timeoutId].timerId,
            clientId |-> timeouts[timeoutId].clientId,
            cursor |-> timeouts[timeoutId].cursor,
            selection |-> timeouts[timeoutId].selection, at |-> now])
    /\ UNCHANGED <<engineVars, ot, cursorBroadcastTimers, now, limiterVars, fabricVars>>

\* the awaited callback settles (resolved, or rejected and logged): the timer
\* function goes on to delete the entry of its key
cursorBroadcastCallbackSettles(timeoutId) ==
    /\ timeoutId \in DOMAIN timeouts
    /\ timeouts[timeoutId].state = "running"
    /\ timeouts' = [timeouts EXCEPT ![timeoutId].state = "done"]
    /\ cursorBroadcastTimers' =
           MapDelete(cursorBroadcastTimers, timeouts[timeoutId].timerId)
    /\ UNCHANGED <<engineVars, ot, invoked, now, limiterVars, fabricVars>>

clearCursorBroadcast(editorId, userId) ==
    /\ Idle
    /\ LET timerId == TimerId(editorId, userId)
       IN  IF timerId \in DOMAIN cursorBroadcastTimers
               THEN /\ timeouts' = clearTimeout(timeouts, cursorBroadcastTimers[timerId])
                    /\ cursorBroadcastTimers' = MapDelete(cursorBroadcastTimers, timerId)
               ELSE UNCHANGED <<timeouts, cursorBroadcastTimers>>
    /\ lastCall' = [name |-> "clearCursorBroadcast", editorId |-> editorId,
                    userId |-> userId]
    /\ lastResult' = "ok"
    /\ published' = <<>>
    /\ UNCHANGED <<editorStates, operationHistories, cursorTrackers, editorSnapshots,
                   batch, appliedCount, ot, invoked, now, limiterVars, fabricVars>>

\* Date.now() moves on
advanceClock(d, until) ==
    /\ now + d <= until
    /\ now' = now + d
    /\ UNCHANGED <<engineVars, ot, timerVars, limiterVars, fabricVars>>

-----------------------------------------------------------------------------
(* CollaborationRateLimiter *)

DefaultMaxOperationsPerSecond == 100

DefaultMaxOperationsPerMinute == 1000

DefaultWindowSizeMs == 60000

\* the constructor: `config.x || default`, a field left out reads as 0 here
RateLimitConfig(given) ==
    [maxOperationsPerSecond |->
         IF given.maxOperationsPerSecond = 0 THEN DefaultMaxOperationsPerSecond
         ELSE given.maxOperationsPerSecond,
     maxOperationsPerMinute |->
         IF given.maxOperationsPerMinute = 0 THEN DefaultMaxOperationsPerMinute
         ELSE given.maxOperationsPerMinute,
     windowSizeMs |->
         IF given.windowSizeMs = 0 THEN DefaultWindowSizeMs ELSE given.windowSizeMs]

NoConfig == [maxOperationsPerSecond |-> 0, maxOperationsPerMinute |-> 0, windowSizeMs |-> 0]

\* mutant: the cleanup never drops a timestamp
cleanupOldTimestamps_Never(userLimit, t) ==
    IF t - userLimit.lastCleanupTime < 10000
        THEN userLimit
        ELSE [operationTimestamps |-> userLimit.operationTimestamps,
              lastCleanupTime |-> t]

\* mutant: the cleanup drops every timestamp
cleanupOldTimestamps_DropsAll(userLimit, t) ==
    IF t - userLimit.lastCleanupTime < 10000
        THEN userLimit
        ELSE [operationTimestamps |-> <<>>, lastCleanupTime |-> t]

cleanupOldTimestamps(userLimit, t) ==
    IF t - userLimit.lastCleanupTime < 10000
        THEN userLimit
        ELSE [operationTimestamps |->
                  SelectSeq(userLimit.operationTimestamps,
                            LAMBDA ts : t - ts < config.windowSizeMs),
              lastCleanupTime |-> t]

\* mutant: the per-second limit is compared with > instead of >=
isAllowed_OneTooMany(limits, userId, t) ==
    LET found == IF userId \in DOMAIN limits
                     THEN limits[userId]
                     ELSE [operationTimestamps |-> <<>>, lastCleanupTime |-> t]
        userLimit == cleanupOldTimestamps(found, t)
        recentOperations == SelectSeq(userLimit.operationTimestamps,
                                      LAMBDA ts : t - ts < 1000)
        allOperations == userLimit.operationTimestamps
    IN  IF Len(recentOperations) > config.maxOperationsPerSecond
            THEN [allowed |-> FALSE, limits |-> MapSet(limits, userId, userLimit)]
        ELSE IF Len(allOperations) >= config.maxOperationsPerMinute
            THEN [allowed |-> FALSE, limits |-> MapSet(limits, userId, userLimit)]
        ELSE [allowed |-> TRUE,
              limits |-> MapSet(limits, userId,
                  [userLimit EXCEPT !.operationTimestamps = Append(@, t)])]

\* mutant: a refused call is recorded as well
isAllowed_RecordsDenied(limits, userId, t) ==
    LET found == IF userId \in DOMAIN limits
                     THEN limits[userId]
                     ELSE [operationTimestamps |-> <<>>, lastCleanupTime |-> t]
        userLimit == cleanupOldTimestamps(found, t)
        recentOperations == SelectSeq(userLimit.operationTimestamps,
                                      LAMBDA ts : t - ts < 1000)
        allOperations == userLimit.operationTimestamps
        recorded == MapSet(limits, userId,
                        [userLimit EXCEPT !.operationTimestamps = Append(@, t)])
    IN  IF Len(recentOperations) >= config.maxOperationsPerSecond
            THEN [allowed |-> FALSE, limits |-> recorded]
        ELSE IF Len(allOperations) >= config.maxOperationsPerMinute
            THEN [allowed |-> FALSE, limits |-> recorded]
        ELSE [allowed |-> TRUE, limits |-> recorded]

\* isAllowed(userId) at time t: its answer and the buckets it leaves
isAllowed(limits, userId, t) ==
    LET found == IF userId \in DOMAIN limits
                     THEN limits[userId]
                     ELSE [operationTimestamps |-> <<>>, lastCleanupTime |-> t]
        userLimit == cleanupOldTimestamps(found, t)
        recentOperations == SelectSeq(userLimit.operationTimestamps,
                                      LAMBDA ts : t - ts < 1000)
        allOperations == userLimit.operationTimestamps
    IN  IF Len(recentOperations) >= config.maxOperationsPerSecond
            THEN [allowed |-> FALSE, limits |-> MapSet(limits, userId, userLimit)]
        ELSE IF Len(allOperations) >= config.maxOperationsPerMinute
            THEN [allowed |-> FALSE, limits |-> MapSet(limits, userId, userLimit)]
        ELSE [allowed |-> TRUE,
              limits |-> MapSet(limits, userId,
                  [userLimit EXCEPT !.operationTimestamps = Append(@, t)])]

\* the answers a user has had since its bucket was made
LogAllowed(log, userId, t, allowed) ==
    MapSet(log, userId,
           Append(IF userId \in DOMAIN log THEN log[userId] ELSE <<>>,
                  [at |-> t, allowed |-> allowed]))

CanLog(userId) ==
    userId \in DOMAIN allowedLog => Len(allowedLog[userId]) < MaxCalls

LimiterIdle ==
    /\ userLimits = <<>>
    /\ config = RateLimitConfig(NoConfig)
    /\ allowedLog = <<>>

checkAndRecord(userId) ==
    /\ Idle
    /\ CanLog(userId)
    /\ LET r == isAllowed(userLimits, userId, now)
       IN  /\ userLimits' = r.limits
           /\ allowedLog' = LogAllowed(allowedLog, userId, now, r.allowed)
           /\ lastResult' = IF r.allowed THEN "ok" ELSE "RateLimitError"
    /\ lastCall' = [name |-> "checkAndRecord", userId |-> userId]
    /\ published' = <<>>
    /\ UNCHANGED <<editorStates, operationHistories, cursorTrackers, editorSnapshots,
                   batch, appliedCount, ot, timerVars, now, config, fabricVars>>

clearUserLimits(userId) ==
    /\ Idle
    /\ userLimits' = MapDelete(userLimits, userId)
    /\ allowedLog' = MapDelete(allowedLog, userId)
    /\ lastCall' = [name |-> "clearUserLimits", userId |-> userId]
    /\ lastResult' = "ok"
    /\ published' = <<>>
    /\ UNCHANGED <<editorStates, operationHistories, cursorTrackers, editorSnapshots,
                   batch, appliedCount, ot, timerVars, now, config, fabricVars>>

clearAllLimits ==
    /\ Idle
    /\ userLimits' = <<>>
    /\ allowedLog' = <<>>
    /\ lastCall' = [name |-> "clearAllLimits"]
    /\ lastResult' = "ok"
    /\ published' = <<>>
    /\ UNCHANGED <<editorStates, operationHistories, cursorTrackers, editorSnapshots,
                   batch, appliedCount, ot, timerVars, now, config, fabricVars>>

-----------------------------------------------------------------------------
(* Session fabric: the registry of connections and document subscriptions,   *)
(* the operation path, fan-out and the heartbeat tick.  Its service is used  *)
(* by core/api/src/plugins/websocket.ts and exercised by                      *)
(* core/domain/test/collaboration/collaboration.service.spec.ts; the         *)
(* definitions follow the specification's section on the session fabric.     *)
(* A transport is "open", "broken" (open, but send throws) or "closed".      *)

Sessions == {"s1", "s2", "s3"}

Documents == {"d1", "d2"}

\* the user whose token opened the connection: u1 holds two sessions
SessionUser(sessionId) == IF sessionId = "s3" THEN "u2" ELSE "u1"

Contains(seq, x) == \E i \in 1..Len(seq) : seq[i] = x

Without(seq, x) == SelectSeq(seq, LAMBDA y : y # x)

RECURSIVE SetToSeq(_)
SetToSeq(S) ==
    IF S = {} THEN <<>>
    ELSE LET x == CHOOSE y \in S : TRUE IN <<x>> \o SetToSeq(S \ {x})

getClient(sessionId) == clients[sessionId]

Registered(sessionId) == sessionId \in DOMAIN clients

getSubscribedClients(documentId) ==
    IF documentId \in DOMAIN sessionsByDocument
        THEN sessionsByDocument[documentId] ELSE <<>>

FabricIdle ==
    /\ clients = <<>>
    /\ sessionsByDocument = <<>>
    /\ sent = <<>>
    /\ closed = <<>>

\* Register: the connection starts alive, with no subscriptions.  Session ids
\* are made by generateSessionId for each new connection, so the id is not in use.
registerClientPath(sessionId, userId) ==
    /\ Idle
    /\ ~Registered(sessionId)
    /\ clients' = MapSet(clients, sessionId,
           [session |-> [sessionId |-> sessionId, userId |-> userId,
                         subscribedDocuments |-> <<>>, lastActivityTime |-> now],
            transport |-> "open", isAlive |-> TRUE])
    /\ lastCall' = [name |-> "registerClient"]
    /\ lastResult' = "ok"
    /\ published' = <<>> /\ sent' = <<>> /\ closed' = <<>>
    /\ UNCHANGED <<editorStates, operationHistories, cursorTrackers, editorSnapshots,
                   batch, appliedCount, timerVars, now, limiterVars,
                   sessionsByDocument>>

registerClient(sessionId, userId) ==
    /\ registerClientPath(sessionId, userId)
    /\ UNCHANGED ot

\* Subscribe, mutant: the session is appended to the document's list
\* without looking for it first
SubscribeSession_Duplicates(byDocument, sessionId, documentId) ==
    MapSet(byDocument, documentId,
           Append(IF documentId \in DOMAIN byDocument THEN byDocument[documentId] ELSE <<>>,
                  sessionId))

\* Subscribe: the document's list gains the session unless it holds it
SubscribeSession(byDocument, sessionId, documentId) ==
    IF documentId \in DOMAIN byDocument
        THEN IF Contains(byDocument[documentId], sessionId)
                 THEN byDocument
                 ELSE [byDocument EXCEPT ![documentId] = Append(@, sessionId)]
        ELSE MapSet(byDocument, documentId, <<sessionId>>)

\* Unsubscribe: the document's list loses the session; an empty list is removed
UnsubscribeSession(byDocument, sessionId, documentId) ==
    IF documentId \notin DOMAIN byDocument
        THEN byDocument
    ELSE IF Without(byDocument[documentId], sessionId) = <<>>
        THEN MapDelete(byDocument, documentId)
    ELSE [byDocument EXCEPT ![documentId] = Without(@, sessionId)]

subscribeToDocument(sessionId, documentId) ==
    /\ Idle
    /\ lastCall' = [name |-> "subscribeToDocument",
                    again |-> /\ Registered(sessionId)
                              /\ Contains(getClient(sessionId).session.subscribedDocuments,
                                          documentId)]
    /\ published' = <<>> /\ sent' = <<>> /\ closed' = <<>>
    /\ IF ~Registered(sessionId)
           THEN /\ lastResult' = "SessionNotFoundError"
                /\ UNCHANGED <<clients, sessionsByDocument>>
           ELSE /\ lastResult' = "ok"
                /\ clients' = [clients EXCEPT
                       ![sessionId].session.subscribedDocuments =
                           IF Contains(@, documentId) THEN @ ELSE Append(@, documentId)]
                /\ sessionsByDocument' =
                       SubscribeSession(sessionsByDocument, sessionId, documentId)
    /\ UNCHANGED <<editorStates, operationHistories, cursorTrackers, editorSnapshots,
                   batch, appliedCount, ot, timerVars, now, limiterVars>>

unsubscribeFromDocument(sessionId, documentId) ==
    /\ Idle
    /\ lastCall' = [name |-> "unsubscribeFromDocument"]
    /\ lastResult' = "ok"
    /\ published' = <<>> /\ sent' = <<>> /\ closed' = <<>>
    /\ IF ~Registered(sessionId)
           THEN UNCHANGED <<clients, sessionsByDocument>>
           ELSE /\ clients' = [clients EXCEPT
                       ![sessionId].session.subscribedDocuments = Without(@, documentId)]
                /\ sessionsByDocument' =
                       UnsubscribeSession(sessionsByDocument, sessionId, documentId)
    /\ UNCHANGED <<editorStates, operationHistories, cursorTrackers, editorSnapshots,
                   batch, appliedCount, ot, timerVars, now, limiterVars>>

\* Unregister, mutant: the client is deleted and its subscriptions are left behind
RemoveFromDocuments_Leak(byDocument, sessionId, documents) == byDocument

\* Unregister, first part: the session leaves every document it subscribed to
RECURSIVE RemoveFromDocuments(_, _, _)
RemoveFromDocuments(byDocument, sessionId, documents) ==
    IF documents = <<>> THEN byDocument
    ELSE RemoveFromDocuments(UnsubscribeSession(byDocument, sessionId, Head(documents)),
                             sessionId, Tail(documents))

\* Unregister of a set of sessions: each leaves its documents, is deleted, and
\* the rate-limit bucket of its user is cleared; absent sessions are passed over
RECURSIVE Unregistered(_, _)
Unregistered(fabric, sessionIds) ==
    IF sessionIds = <<>> THEN fabric
    ELSE LET sessionId == Head(sessionIds)
         IN  IF sessionId \notin DOMAIN fabric.clients
                 THEN Unregistered(fabric, Tail(sessionIds))
                 ELSE LET session == fabric.clients[sessionId].session
                      IN  Unregistered(
                              [clients |-> MapDelete(fabric.clients, sessionId),
                               sessionsByDocument |->
                                   RemoveFromDocuments(fabric.sessionsByDocument, sessionId,
                                                       session.subscribedDocuments),
                               userLimits |-> MapDelete(fabric.userLimits, session.userId),
                               allowedLog |-> MapDelete(fabric.allowedLog, session.userId)],
                              Tail(sessionIds))

Fabric ==
    [clients |-> clients, sessionsByDocument |-> sessionsByDocument,
     userLimits |-> userLimits, allowedLog |-> allowedLog]

\* what a removal finds: whether the session is registered, how many documents
\* it is subscribed to and whether its user has a rate-limit bucket
Found(sessionId) ==
    IF Registered(sessionId)
        THEN [registered |-> TRUE,
              documents |-> Len(getClient(sessionId).session.subscribedDocuments),
              bucket |-> getClient(sessionId).session.userId \in DOMAIN userLimits]
        ELSE [registered |-> FALSE, documents |-> 0, bucket |-> FALSE]

unregisterClient(sessionId) ==
    /\ Idle
    /\ lastCall' = [name |-> "unregisterClient", sessionId |-> sessionId,
                    found |-> Found(sessionId)]
    /\ lastResult' = "ok"
    /\ published' = <<>> /\ sent' = <<>> /\ closed' = <<>>
    /\ LET after == Unregistered(Fabric, <<sessionId>>)
       IN  /\ clients' = after.clients
           /\ sessionsByDocument' = after.sessionsByDocument
           /\ userLimits' = after.userLimits
           /\ allowedLog' = after.allowedLog
    /\ UNCHANGED <<editorStates, operationHistories, cursorTrackers, editorSnapshots,
                   batch, appliedCount, ot, timerVars, now, config>>

\* mutant: the 'close' handler logs the disconnection and leaves the session
wsOnClose_LogOnly(sessionId) ==
    /\ Idle
    /\ Registered(sessionId)
    /\ lastCall' = [name |-> "ws.on('close')", sessionId |-> sessionId,
                    found |-> Found(sessionId)]
    /\ lastResult' = "ok"
    /\ published' = <<>> /\ sent' = <<>> /\ closed' = <<>>
    /\ UNCHANGED <<editorStates, operationHistories, cursorTrackers, editorSnapshots,
                   batch, appliedCount, ot, timerVars, now, limiterVars, clients,
                   sessionsByDocument>>

\* the 'close' event of a connection's transport: the plugin's handler
\* unregisters the session
wsOnClose(sessionId) ==
    /\ Idle
    /\ Registered(sessionId)
    /\ lastCall' = [name |-> "ws.on('close')", sessionId |-> sessionId,
                    found |-> Found(sessionId)]
    /\ lastResult' = "ok"
    /\ published' = <<>> /\ sent' = <<>> /\ closed' = <<>>
    /\ LET after == Unregistered(Fabric, <<sessionId>>)
       IN  /\ clients' = after.clients
           /\ sessionsByDocument' = after.sessionsByDocument
           /\ userLimits' = after.userLimits
           /\ allowedLog' = after.allowedLog
    /\ UNCHANGED <<editorStates, operationHistories, cursorTrackers, editorSnapshots,
                   batch, appliedCount, ot, timerVars, now, config>>

\* the transport of a registered session stops being open, or its send starts
\* to throw, before any 'close' event is handled
transportChanges(sessionId, state) ==
    /\ Idle
    /\ Registered(sessionId)
    /\ clients[sessionId].transport = "open"
    /\ clients' = [clients EXCEPT ![sessionId].transport = state]
    /\ UNCHANGED <<engineVars, ot, timerVars, now, limiterVars, sessionsByDocument,
                   sent, closed>>

\* one transport.send: what was sent to whom, and whether send returned
Frame(sessionId, type, documentId) ==
    [to |-> sessionId, type |-> type, documentId |-> documentId,
     delivered |-> clients[sessionId].transport = "open"]

\* Fan-out, mutant: the first send that throws ends the loop
RECURSIVE FanOut_AbortOnFailure(_, _, _)
FanOut_AbortOnFailure(recipients, documentId, excludeSessionId) ==
    IF recipients = <<>> THEN <<>>
    ELSE LET sessionId == Head(recipients)
         IN  IF sessionId = excludeSessionId \/ ~Registered(sessionId)
                 THEN FanOut_AbortOnFailure(Tail(recipients), documentId, excludeSessionId)
             ELSE IF clients[sessionId].transport = "closed"
                 THEN FanOut_AbortOnFailure(Tail(recipients), documentId, excludeSessionId)
             ELSE IF clients[sessionId].transport = "broken"
                 THEN <<Frame(sessionId, "operation", documentId)>>
             ELSE <<Frame(sessionId, "operation", documentId)>> \o
                  FanOut_AbortOnFailure(Tail(recipients), documentId, excludeSessionId)

\* Fan-out over the sessions of a document: the excluded id and the sessions
\* whose transport is not open are skipped; a send that throws is logged and
\* the loop goes on
RECURSIVE FanOut(_, _, _)
FanOut(recipients, documentId, excludeSessionId) ==
    IF recipients = <<>> THEN <<>>
    ELSE LET sessionId == Head(recipients)
         IN  IF sessionId = excludeSessionId \/ ~Registered(sessionId)
                 THEN FanOut(Tail(recipients), documentId, excludeSessionId)
             ELSE IF clients[sessionId].transport = "closed"
                 THEN FanOut(Tail(recipients), documentId, excludeSessionId)
             ELSE <<Frame(sessionId, "operation", documentId)>> \o
                  FanOut(Tail(recipients), documentId, excludeSessionId)

NoSession == "none"

broadcastToDocument(documentId, excludeSessionId) ==
    /\ Idle
    /\ lastCall' = [name |-> "broadcastToDocument", documentId |-> documentId,
                    excludeSessionId |-> excludeSessionId]
    /\ lastResult' = "ok"
    /\ sent' = FanOut(getSubscribedClients(documentId), documentId, excludeSessionId)
    /\ published' = <<>> /\ closed' = <<>>
    /\ UNCHANGED <<editorStates, operationHistories, cursorTrackers, editorSnapshots,
                   batch, appliedCount, ot, timerVars, now, limiterVars, clients,
                   sessionsByDocument>>

\* Operation path, mutant: the subscription is checked before the rate limit
handleOperation_SubscriptionFirst(sessionId, documentId) ==
    /\ Idle
    /\ lastCall' = [name |-> "handleOperation", sessionId |-> sessionId,
                    documentId |-> documentId]
    /\ published' = <<>> /\ closed' = <<>>
    /\ IF ~Registered(sessionId)
           THEN /\ lastResult' = "SessionNotFoundError"
                /\ sent' = <<>>
                /\ UNCHANGED <<clients, userLimits, allowedLog>>
       ELSE IF ~Contains(getClient(sessionId).session.subscribedDocuments, documentId)
           THEN /\ lastResult' = "OperationDeniedError"
                /\ sent' = <<>>
                /\ UNCHANGED <<clients, userLimits, allowedLog>>
       ELSE LET userId == getClient(sessionId).session.userId
                r == isAllowed(userLimits, userId, now)
            IN  /\ CanLog(userId)
                /\ userLimits' = r.limits
                /\ allowedLog' = LogAllowed(allowedLog, userId, now, r.allowed)
                /\ IF ~r.allowed
                       THEN /\ lastResult' = "RateLimitError"
                            /\ sent' = <<>>
                            /\ UNCHANGED clients
                       ELSE /\ lastResult' = "ok"
                            /\ sent' = FanOut(getSubscribedClients(documentId),
                                              documentId, sessionId)
                            /\ clients' = [clients EXCEPT
                                   ![sessionId].session.lastActivityTime = now]
    /\ UNCHANGED <<editorStates, operationHistories, cursorTrackers, editorSnapshots,
                   batch, appliedCount, ot, timerVars, now, config, sessionsByDocument>>

\* Operation path: look the session up, checkAndRecord for its user, verify
\* the subscription, fan out excluding the sender, update lastActivityTime
handleOperationPath(sessionId, documentId) ==
    /\ Idle
    /\ lastCall' = [name |-> "handleOperation", sessionId |-> sessionId,
                    documentId |-> documentId]
    /\ published' = <<>> /\ closed' = <<>>
    /\ IF ~Registered(sessionId)
           THEN /\ lastResult' = "SessionNotFoundError"
                /\ sent' = <<>>
                /\ UNCHANGED <<clients, userLimits, allowedLog>>
           ELSE LET userId == getClient(sessionId).session.userId
                    r == isAllowed(userLimits, userId, now)
                IN  /\ CanLog(userId)
                    /\ userLimits' = r.limits
                    /\ allowedLog' = LogAllowed(allowedLog, userId, now, r.allowed)
                    /\ IF ~r.allowed
                           THEN /\ lastResult' = "RateLimitError"
                                /\ sent' = <<>>
                                /\ UNCHANGED clients
                       ELSE IF ~Contains(getClient(sessionId).session.subscribedDocuments,
                                         documentId)
                           THEN /\ lastResult' = "OperationDeniedError"
                                /\ sent' = <<>>
                                /\ UNCHANGED clients
                       ELSE /\ lastResult' = "ok"
                            /\ sent' = FanOut(getSubscribedClients(documentId),
                                              documentId, sessionId)
                            /\ clients' = [clients EXCEPT
                                   ![sessionId].session.lastActivityTime = now]
    /\ UNCHANGED <<editorStates, operationHistories, cursorTrackers, editorSnapshots,
                   batch, appliedCount, timerVars, now, config, sessionsByDocument>>

handleOperation(sessionId, documentId) ==
    /\ handleOperationPath(sessionId, documentId)
    /\ UNCHANGED ot

\* handleOperation under watch: ot keeps, through registrations and removals,
\* the user and the time of every operation that was accepted and fanned out
handleOperationWatched(sessionId, documentId) ==
    /\ Len(ot.accepted) < MaxAccepted
    /\ handleOperationPath(sessionId, documentId)
    /\ ot' = IF lastResult' = "ok"
                 THEN [ot EXCEPT !.accepted =
                          Append(@, [userId |-> SessionUser(sessionId), at |-> now])]
                 ELSE ot

\* mutant: markClientAlive leaves the connection as the last tick left it
markClientAlivePath_Forgets(sessionId) ==
    /\ Idle
    /\ Registered(sessionId)
    /\ clients' = clients
    /\ lastCall' = [name |-> "markClientAlive"]
    /\ lastResult' = "ok"
    /\ published' = <<>> /\ sent' = <<>> /\ closed' = <<>>
    /\ UNCHANGED <<editorStates, operationHistories, cursorTrackers, editorSnapshots,
                   batch, appliedCount, timerVars, now, limiterVars,
                   sessionsByDocument>>

markClientAlivePath(sessionId) ==
    /\ Idle
    /\ Registered(sessionId)
    /\ clients' = [clients EXCEPT ![sessionId].isAlive = TRUE]
    /\ lastCall' = [name |-> "markClientAlive"]
    /\ lastResult' = "ok"
    /\ published' = <<>> /\ sent' = <<>> /\ closed' = <<>>
    /\ UNCHANGED <<editorStates, operationHistories, cursorTrackers, editorSnapshots,
                   batch, appliedCount, timerVars, now, limiterVars,
                   sessionsByDocument>>

markClientAlive(sessionId) ==
    /\ markClientAlivePath(sessionId)
    /\ UNCHANGED ot

\* the frames a connection receives: text that is not JSON, a message that
\* validateMessage rejects, one that names another session, one of a known type
\* whose payload is incomplete (no documentId, or an operation message that
\* validateOperationMessage rejects), and complete ones
InboundFrames ==
    {[form |-> f, type |-> "none", documentId |-> "none"] :
        f \in {"unparseable", "invalid", "mismatch"}}
    \cup
    {[form |-> "incomplete", type |-> t, documentId |-> "none"] :
        t \in {"operation", "subscribe", "unsubscribe"}}
    \cup
    {[form |-> "complete", type |-> t, documentId |-> d] :
        t \in {"operation", "subscribe", "unsubscribe"}, d \in Documents}
    \cup
    {[form |-> "complete", type |-> "heartbeat", documentId |-> "none"]}

\* what JSON.parse, validateMessage or the payload check of the plugin's
\* handlers throws on a frame that gets no further ("none": the handler returns)
FrameError(frame) ==
    CASE frame.form = "unparseable" -> "SyntaxError"
      [] frame.form = "invalid" -> "InvalidMessageError"
      [] frame.form = "mismatch" -> "none"
      [] frame.form = "incomplete" -> "InvalidMessageError"

\* mutant: a frame that cannot be handled ends the connection
wsOnMessage_TearDown(sessionId, frame) ==
    IF frame.form # "complete"
        THEN /\ Idle
             /\ lastCall' = [name |-> "ws.on('message')", sessionId |-> sessionId,
                             form |-> frame.form]
             /\ lastResult' = FrameError(frame)
             /\ published' = <<>> /\ sent' = <<>>
             /\ closed' = <<[sessionId |-> sessionId, code |-> 1008,
                             reason |-> "Invalid message"]>>
             /\ LET after == Unregistered(Fabric, <<sessionId>>)
                IN  /\ clients' = after.clients
                    /\ sessionsByDocument' = after.sessionsByDocument
                    /\ userLimits' = after.userLimits
                    /\ allowedLog' = after.allowedLog
             /\ UNCHANGED <<editorStates, operationHistories, cursorTrackers,
                            editorSnapshots, batch, appliedCount, ot, timerVars, now,
                            config>>
    ELSE IF frame.type = "operation" THEN handleOperation(sessionId, frame.documentId)
    ELSE IF frame.type = "subscribe" THEN subscribeToDocument(sessionId, frame.documentId)
    ELSE IF frame.type = "unsubscribe"
        THEN unsubscribeFromDocument(sessionId, frame.documentId)
    ELSE markClientAlive(sessionId)

\* the 'message' event of a connection: the plugin's handler parses and
\* validates the frame, compares its sessionId with the connection's and calls
\* the service for its type.  Whatever is thrown on the way is caught and
\* logged, by the handler or by handleOperation / handleSubscribe /
\* handleUnsubscribe of the plugin; lastResult keeps what was thrown.
wsOnMessage(sessionId, frame) ==
    IF frame.form # "complete"
        THEN /\ Idle
             /\ lastCall' = [name |-> "ws.on('message')", sessionId |-> sessionId,
                             form |-> frame.form]
             /\ lastResult' = FrameError(frame)
             /\ published' = <<>> /\ sent' = <<>> /\ closed' = <<>>
             /\ UNCHANGED <<editorStates, operationHistories, cursorTrackers,
                            editorSnapshots, batch, appliedCount, ot, restVars>>
    ELSE IF frame.type = "operation" THEN handleOperation(sessionId, frame.documentId)
    ELSE IF frame.type = "subscribe" THEN subscribeToDocument(sessionId, frame.documentId)
    ELSE IF frame.type = "unsubscribe"
        THEN unsubscribeFromDocument(sessionId, frame.documentId)
    ELSE markClientAlive(sessionId)

HeartbeatCloseCode == 1000

\* Heartbeat tick, the sessions marked dead by the pass
DeadSessions == {sessionId \in DOMAIN clients : ~clients[sessionId].isAlive}

\* Heartbeat tick, mutant: the dead sessions are closed and left registered
HeartbeatUnregistered_CloseOnly(fabric, dead) == fabric

\* Heartbeat tick, after the pass: the dead sessions are unregistered
HeartbeatUnregistered(fabric, dead) == Unregistered(fabric, dead)

\* Heartbeat tick: a connection that is not alive is marked dead; any other is
\* set not alive and sent a heartbeat frame.  After the pass the dead ones are
\* closed with code 1000 "Heartbeat timeout" and unregistered.
heartbeatTickPath ==
    /\ Idle
    /\ LET dead == SetToSeq(DeadSessions)
           alive == SetToSeq(DOMAIN clients \ DeadSessions)
           marked == [sessionId \in DOMAIN clients |->
                         [clients[sessionId] EXCEPT !.isAlive = FALSE]]
           after == HeartbeatUnregistered(
                        [clients |-> marked, sessionsByDocument |-> sessionsByDocument,
                         userLimits |-> userLimits, allowedLog |-> allowedLog], dead)
       IN  /\ sent' = [i \in 1..Len(alive) |-> Frame(alive[i], "heartbeat", "none")]
           /\ closed' = [i \in 1..Len(dead) |->
                            [sessionId |-> dead[i], code |-> HeartbeatCloseCode,
                             reason |-> "Heartbeat timeout"]]
           /\ clients' = after.clients
           /\ sessionsByDocument' = after.sessionsByDocument
           /\ userLimits' = after.userLimits
           /\ allowedLog' = after.allowedLog
           /\ lastCall' = [name |-> "heartbeatTick"]
    /\ lastResult' = "ok"
    /\ published' = <<>>
    /\ UNCHANGED <<editorStates, operationHistories, cursorTrackers, editorSnapshots,
                   batch, appliedCount, timerVars, now, config>>

heartbeatTick ==
    /\ heartbeatTickPath
    /\ UNCHANGED ot

\* the timer sweep of reset: every entry whose key starts with editorId
ResetTimerKeys(editorId) ==
    {key \in DOMAIN cursorBroadcastTimers : startsWith(key, IdChars(editorId))}

\* mutant: reset drops the editor from the maps
reset_Uninitializes(e) ==
    /\ Idle
    /\ lastCall' = [name |-> "reset", editorId |-> e,
                    afterOperations |-> Initialized(e) /\ getEditorVersion(e) > 0,
                    afterSnapshot |-> HasSnapshot(e)]
    /\ lastResult' = "ok"
    /\ published' = <<>>
    /\ editorStates' = MapDelete(editorStates, e)
    /\ operationHistories' = MapDelete(operationHistories, e)
    /\ cursorTrackers' = MapDelete(cursorTrackers, e)
    /\ editorSnapshots' = MapDelete(editorSnapshots, e)
    /\ appliedCount' = MapDelete(appliedCount, e)
    /\ timeouts' = [h \in DOMAIN timeouts |->
           IF \E key \in ResetTimerKeys(e) : cursorBroadcastTimers[key] = h
               THEN clearTimeout(timeouts, h)[h]
               ELSE timeouts[h]]
    /\ cursorBroadcastTimers' = [key \in DOMAIN cursorBroadcastTimers \ ResetTimerKeys(e) |->
           cursorBroadcastTimers[key]]
    /\ UNCHANGED <<batch, ot, invoked, now, limiterVars, fabricVars>>

\* reset never throws: each part is reset when the editor has it.  appliedCount
\* starts over with the cleared history.
reset(e) ==
    /\ Idle
    /\ lastCall' = [name |-> "reset", editorId |-> e,
                    afterOperations |-> Initialized(e) /\ getEditorVersion(e) > 0,
                    afterSnapshot |-> HasSnapshot(e)]
    /\ lastResult' = "ok"
    /\ published' = <<>>
    /\ editorStates' = [x \in DOMAIN editorStates |->
           IF x = e THEN EditorStateReset(editorStates[x]) ELSE editorStates[x]]
    /\ operationHistories' = [x \in DOMAIN operationHistories |->
           IF x = e THEN HistoryClear(operationHistories[x]) ELSE operationHistories[x]]
    /\ cursorTrackers' = [x \in DOMAIN cursorTrackers |->
           IF x = e THEN clearAllCursors(cursorTrackers[x]) ELSE cursorTrackers[x]]
    /\ editorSnapshots' = MapDelete(editorSnapshots, e)
    /\ appliedCount' = [x \in DOMAIN appliedCount |-> IF x = e THEN 0 ELSE appliedCount[x]]
    /\ timeouts' = [h \in DOMAIN timeouts |->
           IF \E key \in ResetTimerKeys(e) : cursorBroadcastTimers[key] = h
               THEN clearTimeout(timeouts, h)[h]
               ELSE timeouts[h]]
    /\ cursorBroadcastTimers' = [key \in DOMAIN cursorBroadcastTimers \ ResetTimerKeys(e) |->
           cursorBroadcastTimers[key]]
    /\ UNCHANGED <<batch, ot, invoked, now, limiterVars, fabricVars>>

Init ==
    /\ EngineIdle
    /\ ot = OTIdle
    /\ TimersIdle
    /\ LimiterIdle
    /\ FabricIdle

Next ==
    \/ \E e \in Editors, c \in Contents : initializeEditor(e, c)
    \/ \E e \in Editors, o \in Ops : applyOperation(e, o)
    \/ \E e \in Editors, cl \in Clients, v \in 0..MaxVersion, n \in BatchSizes :
           applyOperationBatch(e, cl, v, n)
    \/ \E o \in Ops : applyOperationBatchStep(o)
    \/ \E e \in Editors, c \in Contents : setEditorContent(e, c)
    \/ \E e \in Editors, m \in Modes : setEditorMode(e, m)
    \/ \E e \in Editors, cl \in Clients : createSnapshot(e, cl)
    \/ \E e \in Editors : reset(e)

Spec == Init /\ [][Next]_vars

\* Specification SpecUsers: the remote users of an editor
NextUsers ==
    \/ \E e \in Editors, c \in Contents : initializeEditor(e, c)
    \/ \E e \in Editors, u \in RemoteUsers : addRemoteUser(e, u)
    \/ \E e \in Editors, u \in Users : removeRemoteUser(e, u)
    \/ \E e \in Editors, u \in Users, c \in Cursors, sel \in Selections :
           updateRemoteUserCursor(e, u, c, sel)
    \/ \E e \in Editors : reset(e)

SpecUsers == Init /\ [][NextUsers]_vars

-----------------------------------------------------------------------------
(* The cursor-broadcast timers on their own: two editors, one the prefix of *)
(* the other, and one user                                                   *)

TimerEditors == {"e1", "e10"}

TimerUsers == {"u1"}

\* the clock moves on by a third of the broadcast interval
TimerClockStep == CursorBroadcastIntervalDefaultMs \div 3

\* the cursor and selection a caller hands over: none, or both
BroadcastInputs == {[cursor |-> Null, selection |-> Null]} \cup
    {[cursor |-> c, selection |-> sel] : c \in Cursors \ {Null}, sel \in Selections \ {Null}}

NextTimers ==
    \/ \E e \in TimerEditors, u \in TimerUsers, b \in BroadcastInputs :
           scheduleCursorBroadcast(e, u, b.cursor, b.selection)
    \/ \E h \in 1..MaxTimers : cursorBroadcastTimerFires(h)
    \/ \E h \in 1..MaxTimers : cursorBroadcastCallbackSettles(h)
    \/ \E e \in TimerEditors, u \in TimerUsers : clearCursorBroadcast(e, u)
    \/ \E e \in TimerEditors : reset(e)
    \/ advanceClock(TimerClockStep, MaxTimerNow)

SpecTimers == Init /\ [][NextTimers]_vars

-----------------------------------------------------------------------------
(* The rate limiter on its own, under the configurations a caller may give  *)

GivenConfigs ==
    [maxOperationsPerSecond : {0, 1, 2}, maxOperationsPerMinute : {0, 1, 2},
     windowSizeMs : {0, 1000}]

InitRate ==
    /\ EngineIdle
    /\ ot = OTIdle
    /\ TimersIdle
    /\ FabricIdle
    /\ userLimits = <<>>
    /\ allowedLog = <<>>
    /\ \E given \in GivenConfigs : config = RateLimitConfig(given)

LimiterUsers == {"u1"}

NextRate ==
    \/ \E u \in LimiterUsers : checkAndRecord(u)
    \/ \E u \in LimiterUsers : clearUserLimits(u)
    \/ clearAllLimits
    \/ \E d \in {500, 10000} : advanceClock(d, MaxLimiterNow)

SpecRate == InitRate /\ [][NextRate]_vars

-----------------------------------------------------------------------------
(* The session fabric: the registry under registration, subscription and    *)
(* heartbeat (SpecSessions), and the operation path and fan-out over open,  *)
(* broken and closed transports (SpecFanout).  The limiter of the fabric    *)
(* allows FabricOpsPerSecond operations a second.                           *)

InitFabric ==
    /\ EngineIdle
    /\ ot = OTIdle
    /\ TimersIdle
    /\ FabricIdle
    /\ userLimits = <<>>
    /\ allowedLog = <<>>
    /\ config = RateLimitConfig([NoConfig EXCEPT
                    !.maxOperationsPerSecond = FabricOpsPerSecond])

\* the registry: two sessions of one user
RegistrySessions == {"s1", "s2"}

NextSessions ==
    \/ \E sid \in RegistrySessions : registerClient(sid, SessionUser(sid))
    \/ \E sid \in RegistrySessions, d \in Documents : subscribeToDocument(sid, d)
    \/ \E sid \in RegistrySessions, d \in Documents : unsubscribeFromDocument(sid, d)
    \/ \E sid \in RegistrySessions : unregisterClient(sid)
    \/ \E sid \in RegistrySessions : wsOnClose(sid)
    \/ \E sid \in RegistrySessions : handleOperation(sid, "d1")
    \/ \E sid \in RegistrySessions : markClientAlive(sid)
    \/ heartbeatTick

SpecSessions == InitFabric /\ [][NextSessions]_vars

\* the operation path: two sessions of one user and a session of another
NextOperations ==
    \/ \E sid \in Sessions : registerClient(sid, SessionUser(sid))
    \/ \E sid \in Sessions : subscribeToDocument(sid, "d1")
    \/ \E sid \in Sessions, d \in Documents : handleOperation(sid, d)
    \/ advanceClock(1000, MaxFabricNow)

SpecOperations == InitFabric /\ [][NextOperations]_vars

\* inbound frames: two connections of one user, whose frames arrive also when
\* the heartbeat has unregistered the session
NextFrames ==
    \/ \E sid \in RegistrySessions : registerClient(sid, SessionUser(sid))
    \/ \E sid \in RegistrySessions, frame \in InboundFrames : wsOnMessage(sid, frame)
    \/ heartbeatTick
    \/ advanceClock(1000, MaxFabricNow)

SpecFrames == InitFabric /\ [][NextFrames]_vars

\* fan-out over open, broken and closed transports
NextFanout ==
    \/ \E sid \in Sessions : registerClient(sid, SessionUser(sid))
    \/ \E sid \in Sessions, d \in Documents : subscribeToDocument(sid, d)
    \/ \E sid \in Sessions, state \in {"broken", "closed"} : transportChanges(sid, state)
    \/ \E d \in Documents, ex \in Sessions \cup {NoSession} : broadcastToDocument(d, ex)

SpecFanout == InitFabric /\ [][NextFanout]_vars

-----------------------------------------------------------------------------
(* Specification SpecOT: the pure transform functions on bounded inputs.    *)
(* Init draws a document S and two operations A and B; the actions compute  *)
(* transform(A, B), transform(B, A) and transformOperation(A, [B]) and then  *)
(* apply B; transform(A, B) and A; transform(B, A) to S through             *)
(* EditorState.applyOperation.                                              *)

ClientC1 == <<"c", "1">>
ClientC2 == <<"c", "2">>
ClientC10 == <<"c", "1", "0">>

OTClients == {ClientC1, ClientC2, ClientC10}

OTContents == {<<"x">>, <<"y", "z">>}

OTOps(id) ==
    {Op(id, "insert", p, c, 0, cl, 0) : p \in 0..MaxPos, c \in OTContents, cl \in OTClients}
    \cup
    {Op(id, "delete", p, <<>>, l, cl, 0) : p \in 0..MaxPos, l \in 0..MaxDel, cl \in OTClients}

\* the operation is in bounds on content s (section 3, invariant 3)
InBounds(o, s) ==
    IF o.type = "insert"
        THEN 0 <= o.position /\ o.position <= Len(s)
        ELSE 0 <= o.position /\ o.position + o.length <= Len(s)

\* apply first and then second to a fresh EditorState holding s
ApplyTwo(s, first, second) ==
    LET r1 == EditorStateApply(NewEditorState(s), first)
        r2 == EditorStateApply(r1.es, second)
    IN  IF r1.err # "none" THEN [err |-> r1.err, content |-> r1.es.content]
        ELSE [err |-> r2.err, content |-> r2.es.content]

InitOT ==
    /\ EngineIdle
    /\ TimersIdle
    /\ LimiterIdle
    /\ FabricIdle
    /\ \E s \in Strs(MaxDocLen), a \in OTOps("A"), b \in OTOps("B") :
           ot = [phase |-> "input", S |-> s, A |-> a, B |-> b]

OTTransform ==
    /\ ot.phase = "input"
    /\ ot' = [phase |-> "transformed", S |-> ot.S, A |-> ot.A, B |-> ot.B,
              tAB |-> transform(ot.A, ot.B), tBA |-> transform(ot.B, ot.A),
              svcAB |-> transformOperation("e1", ot.A, <<ot.B>>)]
    /\ UNCHANGED <<engineVars, restVars>>

OTApply ==
    /\ ot.phase = "transformed"
    /\ ot' = [phase |-> "applied", S |-> ot.S, A |-> ot.A, B |-> ot.B,
              tAB |-> ot.tAB, tBA |-> ot.tBA, svcAB |-> ot.svcAB,
              viaB |-> ApplyTwo(ot.S, ot.B, ot.tAB),
              viaA |-> ApplyTwo(ot.S, ot.A, ot.tBA)]
    /\ UNCHANGED <<engineVars, restVars>>

NextOT == OTTransform \/ OTApply

SpecOT == InitOT /\ [][NextOT]_vars

-----------------------------------------------------------------------------
\* Specification SpecEditors: one editor under every kind of call that reads
\* or writes its document, its users or its snapshot, on small inputs
NextEditors ==
    \/ \E e \in Editors, c \in Contents : initializeEditor(e, c)
    \/ \E e \in Editors, o \in {x \in Ops : x.position = 0} : applyOperation(e, o)
    \/ \E e \in Editors, cl \in Clients, v \in 0..MaxVersion :
           applyOperationBatch(e, cl, v, 1)
    \/ \E o \in {x \in Ops : x.position = 0} : applyOperationBatchStep(o)
    \/ \E e \in Editors, o \in {x \in Ops : x.position = 0 /\ x.version = 0} :
           transformOperationCall(e, o, <<[o EXCEPT !.clientId = ClientC2]>>)
    \/ \E e \in Editors, c \in Contents : setEditorContent(e, c)
    \/ \E e \in Editors, m \in Modes : setEditorMode(e, m)
    \/ \E e \in Editors, u \in {x \in RemoteUsers : x.id = "u1" /\ x.isActive} :
           addRemoteUser(e, u)
    \/ \E e \in Editors : removeRemoteUser(e, "u1")
    \/ \E e \in Editors : updateRemoteUserCursor(e, "u1", Cursor(0, 1), Null)
    \/ \E e \in Editors, cl \in Clients : createSnapshot(e, cl)
    \/ \E e \in Editors : reset(e)

SpecEditors == Init /\ [][NextEditors]_vars

-----------------------------------------------------------------------------
(* Specification SpecIsolation: two editors, the id of one a prefix of the   *)
(* other's, each with a document, a remote user, a snapshot and a pending    *)
(* cursor-broadcast timer (the clock stands still), under calls addressed to *)
(* one of them                                                               *)

NextIsolation ==
    \/ \E e \in TimerEditors : initializeEditor(e, <<"a">>)
    \/ \E e \in TimerEditors, o \in {x \in Ops : x.type = "insert" /\ x.position = 0
                                                  /\ x.version = 0} :
           applyOperation(e, o)
    \/ \E e \in TimerEditors, u \in {x \in RemoteUsers : /\ x.id = "u1" /\ x.isActive
                                                         /\ x.cursor # Null} :
           addRemoteUser(e, u)
    \/ \E e \in TimerEditors, cl \in Clients : createSnapshot(e, cl)
    \/ \E e \in TimerEditors, u \in TimerUsers : scheduleCursorBroadcast(e, u, Null, Null)
    \/ \E e \in TimerEditors, u \in TimerUsers : clearCursorBroadcast(e, u)
    \/ \E e \in TimerEditors : reset(e)

SpecIsolation == Init /\ [][NextIsolation]_vars

-----------------------------------------------------------------------------
(* Specification SpecTransform: transformOperation on bounded inputs.  Init  *)
(* draws an operation of client c1 and a list of operations of clients c1    *)
(* and c2 to transform against, the i-th with id "B<i>"; the action is the   *)
(* call.                                                                     *)

\* the operation: an insert of "x" or a delete, of client c1
TransformOperations ==
    {x \in OTOps("A") : /\ x.clientId = ClientC1
                        /\ x.content \in {<<>>, <<"x">>}
                        /\ x.type = "delete" => x.length >= 1}

\* the lists to transform against: inserts of "x" and deletes of one character
AgainstLists ==
    LET ops == {x \in OTOps("B") : /\ x.clientId \in {ClientC1, ClientC2}
                                   /\ x.content \in {<<>>, <<"x">>}
                                   /\ x.type = "delete" => x.length = 1}
    IN  UNION {{[i \in 1..n |-> [f[i] EXCEPT !.id = "B" \o ToString(i)]] :
                    f \in [1..n -> ops]} : n \in 0..MaxAgainst}

InitTransform ==
    /\ EngineIdle
    /\ TimersIdle
    /\ LimiterIdle
    /\ FabricIdle
    /\ \E o \in TransformOperations, l \in AgainstLists :
           ot = [phase |-> "input", operation |-> o, againstOperations |-> l]

\* the call on the inputs drawn, once
NextTransform ==
    /\ lastCall.name = "none"
    /\ transformOperationCall("e1", ot.operation, ot.againstOperations)

SpecTransform == InitTransform /\ [][NextTransform]_vars

-----------------------------------------------------------------------------
(* Specification SpecHistory: an OperationHistory on its own, under its      *)
(* four writing methods with operations of any version.  ot holds the object *)
(* and the last call made on it.                                             *)

\* the operations handed to the history: one of each version
HistoryOps == {x \in Ops : x.type = "insert" /\ x.position = 0}

\* the lists handed to addOperations and rebase
HistoryLists == UNION {[1..n -> HistoryOps] : n \in 0..MaxBatch}

InitHistory ==
    /\ EngineIdle
    /\ TimersIdle
    /\ LimiterIdle
    /\ FabricIdle
    /\ ot = [phase |-> "history", history |-> NewOperationHistory,
             call |-> "new", toVersion |-> 0]

HistoryCall(name, toVersion, h) ==
    /\ ot.phase = "history"
    /\ Len(h.operations) <= MaxHistory
    /\ ot' = [phase |-> "history", history |-> h, call |-> name, toVersion |-> toVersion]
    /\ UNCHANGED <<engineVars, restVars>>

NextHistory ==
    \/ \E o \in HistoryOps : HistoryCall("addOperation", 0, addOperation(ot.history, o))
    \/ \E l \in HistoryLists : HistoryCall("addOperations", 0, addOperations(ot.history, l))
    \/ \E from \in 0..(MaxVersion + 1), to \in 0..(MaxVersion + 1), l \in HistoryLists :
           HistoryCall("rebase", to, rebase(ot.history, from, to, l))
    \/ HistoryCall("clear", 0, HistoryClear(ot.history))

SpecHistory == InitHistory /\ [][NextHistory]_vars

-----------------------------------------------------------------------------
(* Specification SpecState: an EditorState on its own.  Init draws its       *)
(* content and mode and an operation (position and length non-negative, as   *)
(* OperationSchema has them); the action is applyOperation.                  *)

InitState ==
    /\ EngineIdle
    /\ TimersIdle
    /\ LimiterIdle
    /\ FabricIdle
    /\ \E s \in Strs(MaxDocLen), m \in Modes, o \in OTOps("A") :
           ot = [phase |-> "state", before |-> [NewEditorState(s) EXCEPT !.mode = m],
                 operation |-> o]

NextState ==
    /\ ot.phase = "state"
    /\ ot' = [phase |-> "applied to state", before |-> ot.before,
              operation |-> ot.operation,
              result |-> EditorStateApply(ot.before, ot.operation)]
    /\ UNCHANGED <<engineVars, restVars>>

SpecState == InitState /\ [][NextState]_vars

-----------------------------------------------------------------------------
(* Specification SpecCursor: transformCursorForOperation on bounded inputs.  *)
(* Init draws a cursor, an operation, and an insert of one character by some *)
(* client at the offset of the cursor's column; the action transforms the    *)
(* cursor and the insert against the operation.                              *)

CursorLines == 0..1

InitCursor ==
    /\ EngineIdle
    /\ TimersIdle
    /\ LimiterIdle
    /\ FabricIdle
    /\ \E l \in CursorLines, c \in 0..MaxPos, cl \in OTClients, o \in OTOps("B") :
           ot = [phase |-> "cursor", cursor |-> Cursor(l, c),
                 insert |-> Op("A", "insert", c, <<"x">>, 0, cl, 0), operation |-> o]

NextCursor ==
    /\ ot.phase = "cursor"
    /\ ot' = [phase |-> "cursor transformed", cursor |-> ot.cursor, insert |-> ot.insert,
              operation |-> ot.operation,
              result |-> transformCursorForOperation(ot.cursor, ot.operation),
              tInsert |-> transform(ot.insert, ot.operation)]
    /\ UNCHANGED <<engineVars, restVars>>

SpecCursor == InitCursor /\ [][NextCursor]_vars

-----------------------------------------------------------------------------
(* Specification SpecChurn: two sessions of one user come and go while they  *)
(* send operations on one document and the clock moves on in half seconds;   *)
(* ot keeps the record of the operations accepted.                           *)

InitChurn ==
    /\ EngineIdle
    /\ ot = [phase |-> "watching", accepted |-> <<>>]
    /\ TimersIdle
    /\ FabricIdle
    /\ userLimits = <<>>
    /\ allowedLog = <<>>
    /\ config = RateLimitConfig([NoConfig EXCEPT
                    !.maxOperationsPerSecond = FabricOpsPerSecond])

NextChurn ==
    \/ \E sid \in RegistrySessions : registerClient(sid, SessionUser(sid))
    \/ \E sid \in RegistrySessions : subscribeToDocument(sid, "d1")
    \/ \E sid \in RegistrySessions : handleOperationWatched(sid, "d1")
    \/ \E sid \in RegistrySessions : unregisterClient(sid)
    \/ \E sid \in RegistrySessions : wsOnClose(sid)
    \/ advanceClock(500, MaxFabricNow)

SpecChurn == InitChurn /\ [][NextChurn]_vars

-----------------------------------------------------------------------------
(* Specification SpecQuota: one rate limiter and two users, with limits of   *)
(* one or two calls, windows shorter and longer than the 10 s between two    *)
(* cleanups, and a clock that moves on in steps of 5 s.                      *)

QuotaConfigs ==
    [maxOperationsPerSecond : {1, 2}, maxOperationsPerMinute : {1, 2},
     windowSizeMs : {1000, 20000}]

QuotaUsers == {"u1", "u2"}

InitQuota ==
    /\ EngineIdle
    /\ ot = OTIdle
    /\ TimersIdle
    /\ FabricIdle
    /\ userLimits = <<>>
    /\ allowedLog = <<>>
    /\ \E given \in QuotaConfigs : config = RateLimitConfig(given)

NextQuota ==
    \/ \E u \in QuotaUsers : checkAndRecord(u)
    \/ advanceClock(5000, MaxQuotaNow)

SpecQuota == InitQuota /\ [][NextQuota]_vars

-----------------------------------------------------------------------------
(* Specification SpecMany: transform and transformAgainstMany on bounded     *)
(* inputs.  Init draws an operation and two operations to transform it       *)
(* against, the second one by client c2; the action computes the transform   *)
(* against the first and the fold over both.                                 *)

InitMany ==
    /\ EngineIdle
    /\ TimersIdle
    /\ LimiterIdle
    /\ FabricIdle
    /\ \E o \in OTOps("A"), a \in OTOps("B"),
          b \in {x \in OTOps("C") : x.clientId = ClientC2} :
           ot = [phase |-> "many", op |-> o, others |-> <<a, b>>]

NextMany ==
    /\ ot.phase = "many"
    /\ ot' = [phase |-> "many transformed", op |-> ot.op, others |-> ot.others,
              first |-> transform(ot.op, ot.others[1]),
              result |-> transformAgainstMany(ot.op, ot.others)]
    /\ UNCHANGED <<engineVars, restVars>>

SpecMany == InitMany /\ [][NextMany]_vars

\* The heartbeat loop, with what each registration has seen kept in ot: the
\* ticks since registerClient, whether markClientAlive was called since the
\* last tick (answered) and in every interval between two ticks (kept), whether
\* it was never called (silent), and the tick at which the loop removed the
\* session (0: it has not).
NewWatch == [ticks |-> 0, answered |-> FALSE, kept |-> TRUE, silent |-> TRUE,
             droppedAt |-> 0]

InitHeartbeat ==
    /\ EngineIdle
    /\ ot = [phase |-> "heartbeat", watch |-> [sid \in RegistrySessions |-> NewWatch]]
    /\ TimersIdle
    /\ FabricIdle
    /\ userLimits = <<>>
    /\ allowedLog = <<>>
    /\ config = RateLimitConfig([NoConfig EXCEPT
                    !.maxOperationsPerSecond = FabricOpsPerSecond])

registerClientWatched(sessionId, userId) ==
    /\ registerClientPath(sessionId, userId)
    /\ ot' = [ot EXCEPT !.watch[sessionId] = NewWatch]

markClientAliveWatched(sessionId) ==
    /\ markClientAlivePath(sessionId)
    /\ ot' = [ot EXCEPT !.watch[sessionId].answered = TRUE,
                        !.watch[sessionId].silent = FALSE]

\* ws.on('message'): a heartbeat frame that names the connection's own session
\* calls markClientAlive, any other frame is handled as before
wsOnMessageWatched(sessionId, frame) ==
    IF frame.form = "complete" /\ frame.type = "heartbeat"
        THEN markClientAliveWatched(sessionId)
        ELSE wsOnMessage(sessionId, frame)

\* ws.on('pong')
wsOnPong(sessionId) == markClientAliveWatched(sessionId)

heartbeatTickWatched ==
    /\ \A sid \in DOMAIN clients : ot.watch[sid].ticks < MaxTicks
    /\ heartbeatTickPath
    /\ ot' = [ot EXCEPT !.watch = [sid \in RegistrySessions |->
                 IF ~Registered(sid) THEN @[sid]
                 ELSE [ticks |-> @[sid].ticks + 1,
                       answered |-> FALSE,
                       kept |-> @[sid].kept /\ (@[sid].ticks = 0 \/ @[sid].answered),
                       silent |-> @[sid].silent,
                       droppedAt |-> IF /\ sid \in DOMAIN clients'
                                        /\ \A i \in 1..Len(closed') :
                                               closed'[i].sessionId # sid
                                         THEN 0 ELSE @[sid].ticks + 1]]]

NextHeartbeat ==
    \/ \E sid \in RegistrySessions : registerClientWatched(sid, SessionUser(sid))
    \/ \E sid \in RegistrySessions : wsOnPong(sid)
    \/ \E sid \in RegistrySessions,
          frame \in {f \in InboundFrames : f.form = "mismatch" \/ f.type = "heartbeat"} :
           wsOnMessageWatched(sid, frame)
    \/ \E sid \in RegistrySessions : unregisterClient(sid)
    \/ \E sid \in RegistrySessions : wsOnClose(sid)
    \/ heartbeatTickWatched

SpecHeartbeat == InitHeartbeat /\ [][NextHeartbeat]_vars

-----------------------------------------------------------------------------
(* Properties.  What the claims need beyond the program: string splicing    *)
(* and the lexicographic order, written out independently of the model.     *)

\* s with c inserted at offset p
SpliceInsert(s, p, c) ==
    [i \in 1..(Len(s) + Len(c)) |->
        IF i <= p THEN s[i] ELSE IF i <= p + Len(c) THEN c[i - p] ELSE s[i - Len(c)]]

\* s without the l characters from offset p on
SpliceDelete(s, p, l) ==
    [i \in 1..(Len(s) - l) |-> IF i <= p THEN s[i] ELSE s[i + l]]

\* the content after the in-bounds operations ops[1..k] on s
RECURSIVE ContentAfter(_, _, _)
ContentAfter(s, ops, k) ==
    IF k = 0 THEN s
    ELSE LET before == ContentAfter(s, ops, k - 1)
         IN  IF ops[k].type = "insert"
                 THEN SpliceInsert(before, ops[k].position, ops[k].content)
                 ELSE SpliceDelete(before, ops[k].position, ops[k].length)

\* a comes before b in the lexicographic order of code units
LexSmaller(a, b) ==
    \/ Len(a) < Len(b) /\ \A i \in 1..Len(a) : a[i] = b[i]
    \/ \E k \in 1..Len(a) :
           /\ k <= Len(b)
           /\ \A i \in 1..(k - 1) : a[i] = b[i]
           /\ CharCode(a[k]) < CharCode(b[k])

\* the case of TP1: different clients, both operations in bounds on S
TP1Case ==
    /\ ot.phase = "applied"
    /\ ot.A.clientId # ot.B.clientId
    /\ InBounds(ot.A, ot.S)
    /\ InBounds(ot.B, ot.S)

\* C1 (as claimed; refuted): for every content S and operations A, B of different
\* clients that are in bounds on S, applying B then transform(A, B) and applying A
\* then transform(B, A) both succeed and leave the same content.
C1_TP1Convergence ==
    TP1Case => /\ ot.viaB.err = "none"
               /\ ot.viaA.err = "none"
               /\ ot.viaB.content = ot.viaA.content

\* C2: the version getEditorVersion returns is the number of applyOperation calls
\* (direct or through a batch) that returned normally since the editor was
\* created or last reset; a call that raised has left it as it was.
C2_VersionCountsApplied ==
    \A e \in DOMAIN editorStates : getEditorVersion(e) = appliedCount[e]

\* C2 witness: a batch has applied its first operation and failed on its second
C2_Witness ==
    /\ lastCall.name = "applyOperationBatch"
    /\ lastResult \in {"VersionConflictError", "OperationApplyError"}
    /\ Len(lastCall.operations) = 2
    /\ appliedCount[lastCall.editorId] = 1

\* this step is an applyOperation on editor e: the call itself, or a round of
\* the batch loop
StepApplies(e) ==
    \/ /\ lastCall'.name = "applyOperation"
       /\ lastCall'.editorId = e
    \/ /\ batch.active
       /\ batch.editorId = e
       /\ Len(lastCall'.operations) = Len(lastCall.operations) + 1

\* the operation it was called with
StepOperation ==
    IF lastCall'.name = "applyOperation"
        THEN lastCall'.operation
        ELSE lastCall'.operations[Len(lastCall'.operations)]

\* C3: an applyOperation whose operation.version differs from the history version
\* raises VersionConflictError, publishes nothing more and leaves EditorState and
\* history as they were; the history only grows by one operation whose version is
\* the history version it was appended at.
C3_VersionConflictRejected ==
    [][\A e \in DOMAIN editorStates :
          /\ (StepApplies(e) /\ StepOperation.version # getEditorVersion(e))
             => /\ lastResult' = "VersionConflictError"
                /\ published' = IF batch.active THEN published ELSE <<>>
                /\ editorStates'[e] = editorStates[e]
                /\ operationHistories'[e] = operationHistories[e]
          /\ LET h == operationHistories[e]
                 h2 == operationHistories'[e]
             IN  \/ h2 = h
                 \/ h2 = NewOperationHistory
                 \/ /\ Len(h2.operations) = Len(h.operations) + 1
                    /\ SubSeq(h2.operations, 1, Len(h.operations)) = h.operations
                    /\ h2.operations[Len(h2.operations)].version = h.version
                    /\ h2.version = h.version + 1
      ]_vars

\* C3 witness: a version conflict on an editor whose history holds an operation
C3_Witness ==
    /\ lastCall.name = "applyOperation"
    /\ lastResult = "VersionConflictError"
    /\ Initialized(lastCall.editorId)
    /\ Len(getOperationHistory(lastCall.editorId)) = 1
    /\ lastCall.operation.version = 0

\* C4 (as claimed; refuted): an applyOperation that returns normally has not
\* found the editor in mode READ_ONLY.
C4_ReadOnlyRejects ==
    (lastCall.name = "applyOperation" /\ Initialized(lastCall.editorId)
        /\ getEditorMode(lastCall.editorId) = "read_only")
    => lastResult # "ok"

\* C5 (as claimed; refuted): after reset(editorId), getRemoteUsers(editorId) is empty.
C5_ResetClearsRemoteUsers ==
    (lastCall.name = "reset" /\ Initialized(lastCall.editorId))
    => getRemoteUsers(lastCall.editorId) = {}

\* C6: after reset(editorId) on an initialized editor the content is empty, the
\* version is 0, the operation history is empty and there is no snapshot.
C6_ResetClearsDocument ==
    (lastCall.name = "reset" /\ Initialized(lastCall.editorId))
    => /\ getEditorContent(lastCall.editorId) = <<>>
       /\ getEditorVersion(lastCall.editorId) = 0
       /\ getOperationHistory(lastCall.editorId) = <<>>
       /\ ~HasSnapshot(lastCall.editorId)

\* C6 witness: a reset of an editor that had applied operations and a snapshot
C6_Witness ==
    /\ lastCall.name = "reset"
    /\ Initialized(lastCall.editorId)
    /\ lastCall.afterOperations
    /\ lastCall.afterSnapshot

\* two inserts at one position
InsertTie ==
    /\ ot.phase \in {"transformed", "applied"}
    /\ ot.A.type = "insert"
    /\ ot.B.type = "insert"
    /\ ot.A.position = ot.B.position

\* C7 (as claimed; refuted): for insert A of client c1 and insert B of client c2 at
\* one position, transformOperation(A, [B]) is A shifted right by len(B.content)
\* and transform(B, A) keeps B's position.
C7_TieAsTested ==
    (InsertTie /\ ot.A.clientId = ClientC1 /\ ot.B.clientId = ClientC2)
    => /\ ot.svcAB.op.position = ot.A.position + Len(ot.B.content)
       /\ ot.tBA.position = ot.B.position

EventsOfType(type) == {i \in 1..Len(published) : published[i].event.type = type}

\* a batch call that has ended with an error raised by its k-th operation
BatchFailedAt(k) ==
    /\ lastCall.name = "applyOperationBatch"
    /\ lastResult \notin {"ok", "running"}
    /\ Len(lastCall.operations) = k
    /\ k >= 1

\* C9: when the k-th operation of a batch fails, the call ends there: operations
\* 1..k-1 stay applied (content, history and version are those after them), and
\* no OperationBatchReceivedEvent is published.
C9_BatchNonAtomic ==
    \A k \in 1..(MaxBatch + 1) :
        BatchFailedAt(k)
        => LET e == lastCall.editorId
               base == lastCall.baseVersion
               h == getOperationHistory(e)
           IN  /\ ~batch.active
               /\ getEditorVersion(e) = base + k - 1
               /\ Len(h) = base + k - 1
               /\ \A i \in 1..(k - 1) : h[base + i] = lastCall.operations[i]
               /\ getEditorContent(e) =
                      ContentAfter(lastCall.contentBefore, lastCall.operations, k - 1)
               /\ EventsOfType("OperationBatchReceivedEvent") = {}
               /\ EventsOfType("OperationAppliedEvent") = 1..(k - 1)

\* C9 witness: a batch of two whose first operation changed the content and whose
\* second failed
C9_Witness ==
    /\ BatchFailedAt(2)
    /\ lastCall.count = 2
    /\ getEditorContent(lastCall.editorId) # lastCall.contentBefore

\* a batch call that has returned normally
BatchSucceeded ==
    /\ lastCall.name = "applyOperationBatch"
    /\ lastResult = "ok"

\* C10: a batch of n operations that succeeds publishes n OperationAppliedEvents
\* in batch order, with versions baseVersion .. baseVersion+n-1, each when its
\* operation is in the content and the history, and then one
\* OperationBatchReceivedEvent with operationCount n.
C10_BatchEventsInOrder ==
    BatchSucceeded
    => LET e == lastCall.editorId
           n == lastCall.count
           base == lastCall.baseVersion
       IN  /\ Len(lastCall.operations) = n
           /\ Len(published) = n + 1
           /\ \A i \in 1..n :
                  /\ published[i].event = OperationAppliedEvent(e, lastCall.operations[i])
                  /\ published[i].event.version = base + i - 1
                  /\ published[i].atVersion = base + i
                  /\ published[i].atContent =
                         ContentAfter(lastCall.contentBefore, lastCall.operations, i)
           /\ published[n + 1].event =
                  OperationBatchReceivedEvent(e, lastCall.clientId, n, base)
           /\ published[n + 1].atVersion = base + n

\* C10 witness: a batch of two inserts has succeeded
C10_Witness ==
    /\ BatchSucceeded
    /\ lastCall.count = 2
    /\ lastCall.baseVersion = 0
    /\ Len(getEditorContent(lastCall.editorId)) = Len(lastCall.contentBefore) + 2

-----------------------------------------------------------------------------
(* C11: the size check of applyOperationBatch *)

\* the step is a call of applyOperationBatch on editor e with an empty batch or
\* one of more than OperationBatchSize.MAX operations
OutsizedBatchCall(e) ==
    /\ ~batch.active
    /\ lastCall'.name = "applyOperationBatch"
    /\ lastCall'.editorId = e
    /\ lastCall'.count = 0 \/ lastCall'.count > BatchSizeMax

\* the step leaves the document of e alone and publishes nothing
NothingApplied(e) ==
    /\ editorStates'[e] = editorStates[e]
    /\ operationHistories'[e] = operationHistories[e]
    /\ published' = <<>>
    /\ ~batch'.active

\* C11 as claimed: applyOperationBatch on an existing editor with a batch of 0
\* or of more than 100 operations raises OperationBatchValidationError, with
\* content, history and version unchanged and no event published.
C11_OutsizedBatchAlwaysValidationError ==
    [][\A e \in DOMAIN editorStates :
          OutsizedBatchCall(e)
          => /\ lastResult' = "OperationBatchValidationError"
             /\ NothingApplied(e)
      ]_vars

\* C11 amended: such a batch raises OperationBatchValidationError when its
\* baseVersion is the current version and VersionConflictError when it is not
\* (the version is checked first); either way content, history and version are
\* unchanged and no event is published.
C11_OutsizedBatchRejected ==
    [][\A e \in DOMAIN editorStates :
          OutsizedBatchCall(e)
          => /\ lastResult' = IF lastCall'.baseVersion = getEditorVersion(e)
                                  THEN "OperationBatchValidationError"
                                  ELSE "VersionConflictError"
             /\ NothingApplied(e)
      ]_vars

\* C11 witness: a batch of 101 operations at the current version of a document
\* that has operations applied was refused for its size
C11_Witness ==
    /\ lastCall.name = "applyOperationBatch"
    /\ lastCall.count = BatchSizeMax + 1
    /\ lastResult = "OperationBatchValidationError"
    /\ lastCall.baseVersion = getEditorVersion(lastCall.editorId)
    /\ lastCall.baseVersion > 0

-----------------------------------------------------------------------------
(* C12: the two sides of the subscription registry *)

NoDuplicates(seq) == \A i, j \in 1..Len(seq) : seq[i] = seq[j] => i = j

\* C12: for every session s and document d, d is among the subscribed documents
\* of s exactly when s is among the sessions of d; neither list holds an entry
\* twice, and only registered sessions are listed.
C12_SubscriptionsConsistent ==
    /\ \A sid \in Sessions, d \in Documents :
           (/\ Registered(sid)
            /\ Contains(getClient(sid).session.subscribedDocuments, d))
           <=> Contains(getSubscribedClients(d), sid)
    /\ \A sid \in DOMAIN clients : NoDuplicates(getClient(sid).session.subscribedDocuments)
    /\ \A d \in DOMAIN sessionsByDocument : NoDuplicates(sessionsByDocument[d])

\* C12 witness: a session has subscribed again to a document it was subscribed
\* to, while the document has two sessions
C12_Witness ==
    /\ lastCall.name = "subscribeToDocument"
    /\ lastCall.again
    /\ \E d \in DOMAIN sessionsByDocument : Len(sessionsByDocument[d]) = 2

-----------------------------------------------------------------------------
(* C13: what a removed session leaves behind *)

\* the step removes session sid: by unregisterClient, by the 'close' handler of
\* its transport, or by a heartbeat tick that finds it not alive
Removal(sid) ==
    /\ Registered(sid)
    /\ \/ /\ lastCall'.name \in {"unregisterClient", "ws.on('close')"}
          /\ lastCall'.sessionId = sid
       \/ /\ lastCall'.name = "heartbeatTick"
          /\ ~getClient(sid).isAlive

\* C13: after a session is removed it is no longer registered, it is in the
\* list of no document, and its user has no rate-limit bucket.
C13_RemovalLeavesNothing ==
    [][\A sid \in Sessions :
          Removal(sid)
          => /\ sid \notin DOMAIN clients'
             /\ \A d \in DOMAIN sessionsByDocument' : ~Contains(sessionsByDocument'[d], sid)
             /\ getClient(sid).session.userId \notin DOMAIN userLimits'
      ]_vars

\* C13 witness: the transport of a session closed while the session was
\* subscribed to two documents and its user had a bucket, and the other session
\* of the user is still registered and subscribed
C13_Witness ==
    /\ lastCall.name = "ws.on('close')"
    /\ lastCall.found.documents = 2
    /\ lastCall.found.bucket
    /\ \E sid \in DOMAIN clients :
           /\ sid # lastCall.sessionId
           /\ getClient(sid).session.subscribedDocuments # <<>>

-----------------------------------------------------------------------------
(* C14: the checks of handleOperation and their order *)

\* the step is handleOperation(sid, d) (the clock stands still during a call)
OperationCall(sid, d) ==
    /\ now' = now
    /\ lastCall'.name = "handleOperation"
    /\ lastCall'.sessionId = sid
    /\ lastCall'.documentId = d

\* the sessions of document d other than sid
OtherSubscribers(sid, d) ==
    {other \in Sessions : other # sid /\ Contains(getSubscribedClients(d), other)}

\* C14: handleOperation looks up the session, then asks the rate limiter, then
\* verifies the subscription.  An unregistered session gets SessionNotFoundError
\* before the limiter is asked; a registered one the limiter refuses gets
\* RateLimitError; one the limiter lets through that is not subscribed to the
\* document gets OperationDeniedError.  No error sends a frame or touches
\* lastActivityTime.  An operation that passes is sent once to each other
\* subscriber of the document and sets the sender's lastActivityTime.
C14_OperationChecksInOrder ==
    [][\A sid \in Sessions, d \in Documents :
          OperationCall(sid, d)
          => IF ~Registered(sid)
                 THEN /\ lastResult' = "SessionNotFoundError"
                      /\ sent' = <<>>
                      /\ clients' = clients
                      /\ userLimits' = userLimits
             ELSE LET userId == getClient(sid).session.userId
                      r == isAllowed(userLimits, userId, now)
                      subscribed == Contains(getClient(sid).session.subscribedDocuments, d)
                  IN  /\ userLimits' = r.limits
                      /\ IF ~r.allowed
                             THEN /\ lastResult' = "RateLimitError"
                                  /\ sent' = <<>>
                                  /\ clients' = clients
                         ELSE IF ~subscribed
                             THEN /\ lastResult' = "OperationDeniedError"
                                  /\ sent' = <<>>
                                  /\ clients' = clients
                         ELSE /\ lastResult' = "ok"
                              /\ {sent'[i].to : i \in 1..Len(sent')} = OtherSubscribers(sid, d)
                              /\ Len(sent') = Cardinality(OtherSubscribers(sid, d))
                              /\ clients' = [clients EXCEPT
                                     ![sid].session.lastActivityTime = now]
      ]_vars

\* C14 witness: an operation on a document its sender is not subscribed to, and
\* to which another session is, was denied after the limiter had recorded it
C14_Witness ==
    /\ lastCall.name = "handleOperation"
    /\ lastResult = "OperationDeniedError"
    /\ OtherSubscribers(lastCall.sessionId, lastCall.documentId) # {}
    /\ now > 0
    /\ LET userId == getClient(lastCall.sessionId).session.userId
           stamps == userLimits[userId].operationTimestamps
       IN  stamps # <<>> /\ stamps[Len(stamps)] = now

-----------------------------------------------------------------------------
(* C15: the per-second limit *)

\* C15: with maxOperationsPerMinute >= maxOperationsPerSecond, of the calls of
\* isAllowed(u) made within one second of the first call on an empty bucket,
\* the first maxOperationsPerSecond are allowed and the next one is refused.
C15_PerSecondLimit ==
    config.maxOperationsPerMinute >= config.maxOperationsPerSecond
    => \A u \in DOMAIN allowedLog :
           \A k \in 1..Len(allowedLog[u]) :
               allowedLog[u][k].at - allowedLog[u][1].at < 1000
               => /\ k <= config.maxOperationsPerSecond => allowedLog[u][k].allowed
                  /\ k = config.maxOperationsPerSecond + 1 => ~allowedLog[u][k].allowed

\* C15 witness: with two operations a second, two calls half a second apart
\* were allowed and a third within the second was refused with RateLimitError
C15_Witness ==
    /\ config.maxOperationsPerSecond = 2
    /\ config.maxOperationsPerMinute >= 2
    /\ lastCall.name = "checkAndRecord"
    /\ lastResult = "RateLimitError"
    /\ LET log == allowedLog[lastCall.userId]
       IN  /\ Len(log) = 3
           /\ log[1].at < log[2].at
           /\ log[3].at - log[1].at < 1000
           /\ log[1].allowed /\ log[2].allowed /\ ~log[3].allowed

-----------------------------------------------------------------------------
(* C16: fan-out *)

\* the step is broadcastToDocument(d, ex)
BroadcastCall(d, ex) ==
    /\ clients' = clients
    /\ lastCall'.name = "broadcastToDocument"
    /\ lastCall'.documentId = d
    /\ lastCall'.excludeSessionId = ex

\* the sessions a broadcast for d excluding ex is meant for: subscribed to d,
\* not ex, transport in the open state
Recipients(d, ex) ==
    {sid \in DOMAIN clients :
        /\ Contains(getSubscribedClients(d), sid)
        /\ sid # ex
        /\ getClient(sid).transport # "closed"}

\* C16: a broadcast for document d sends exactly one frame to every session
\* that is subscribed to d, is not the excluded one and has an open transport,
\* and none to any other session; the frame arrives unless that session's own
\* send throws, whatever happened to the sends before it.
C16_FanOutExcludesSender ==
    [][\A d \in Documents, ex \in Sessions \cup {NoSession} :
          BroadcastCall(d, ex)
          => /\ \A sid \in Recipients(d, ex) :
                    \E i \in 1..Len(sent') :
                        /\ sent'[i].to = sid
                        /\ sent'[i].delivered <=> getClient(sid).transport = "open"
                        /\ \A j \in 1..Len(sent') : sent'[j].to = sid => j = i
             /\ \A i \in 1..Len(sent') : sent'[i].to \in Recipients(d, ex)
      ]_vars

\* C16 witness: a broadcast that excluded a subscribed sender reached a session
\* after the send to another session had thrown
C16_Witness ==
    /\ lastCall.name = "broadcastToDocument"
    /\ Contains(getSubscribedClients(lastCall.documentId), lastCall.excludeSessionId)
    /\ \E i, j \in 1..Len(sent) :
           /\ i < j
           /\ ~sent[i].delivered
           /\ sent[j].delivered

-----------------------------------------------------------------------------
(* C17: the heartbeat tick *)

\* the frames of a type sent to a session, and the closes of its transport
FramesTo(frames, sid, type) ==
    {i \in 1..Len(frames) : frames[i].to = sid /\ frames[i].type = type}

ClosesOf(closes, sid) == {i \in 1..Len(closes) : closes[i].sessionId = sid}

\* C17: at a heartbeat tick a connection that is not alive is closed once, with
\* code 1000 and reason "Heartbeat timeout", is sent no heartbeat and is no
\* longer registered after the tick; any other connection stays registered, is
\* set not alive, is sent exactly one heartbeat frame and is not closed.
C17_HeartbeatTimeout ==
    [][lastCall'.name = "heartbeatTick"
       => \A sid \in DOMAIN clients :
              IF ~getClient(sid).isAlive
                  THEN /\ sid \notin DOMAIN clients'
                       /\ \E i \in 1..Len(closed') :
                              /\ ClosesOf(closed', sid) = {i}
                              /\ closed'[i].code = 1000
                              /\ closed'[i].reason = "Heartbeat timeout"
                       /\ FramesTo(sent', sid, "heartbeat") = {}
                  ELSE /\ sid \in DOMAIN clients'
                       /\ ~clients'[sid].isAlive
                       /\ Cardinality(FramesTo(sent', sid, "heartbeat")) = 1
                       /\ ClosesOf(closed', sid) = {}
      ]_vars

\* C17 witness: a tick closed a session that had missed the tick before and
\* sent a heartbeat to one that had answered it
C17_Witness ==
    /\ lastCall.name = "heartbeatTick"
    /\ Len(closed) = 1
    /\ Len(sent) = 1
    /\ sent[1].to # closed[1].sessionId
    /\ ~Registered(closed[1].sessionId)
    /\ Registered(sent[1].to)

-----------------------------------------------------------------------------
(* C18, C19, C20: the cursor-broadcast timers *)

\* the timers of a key that are scheduled and have not fired
PendingTimers(timerId) ==
    {h \in DOMAIN timeouts :
        timeouts[h].timerId = timerId /\ timeouts[h].state = "pending"}

\* the step is a call of scheduleCursorBroadcast: the runtime hands out a timer
ScheduleCall == Len(timeouts') = Len(timeouts) + 1

\* C18: when scheduleCursorBroadcast is called for a pair that has a scheduled
\* timer which has not fired, that timer is cancelled, and the new timer is the
\* only one left to fire for the pair, one interval after this call; a timer
\* that fires hands the callback the cursor and selection of its own call, not
\* before it is due.
C18_Debounce ==
    [][/\ ScheduleCall
          => LET new == Len(timeouts')
                 timerId == timeouts'[new].timerId
             IN  /\ \A h \in PendingTimers(timerId) : timeouts'[h].state = "cancelled"
                 /\ timeouts'[new].state = "pending"
                 /\ timeouts'[new].due = now + CursorBroadcastIntervalDefaultMs
       /\ Len(invoked') = Len(invoked) + 1
          => LET call == invoked'[Len(invoked')]
                 timer == timeouts[call.timeout]
             IN  /\ timer.state = "pending"
                 /\ call.cursor = timer.cursor
                 /\ call.selection = timer.selection
                 /\ call.at >= timer.due
      ]_vars

\* the step is clearCursorBroadcast(e, u): the call is the last one made, and
\* the step is not a timer firing, a callback settling or the clock moving on
ClearCall(e, u) ==
    /\ lastCall' = [name |-> "clearCursorBroadcast", editorId |-> e, userId |-> u]
    /\ invoked' = invoked
    /\ now' = now
    /\ \A h \in DOMAIN timeouts : timeouts'[h].state = "done" => timeouts[h].state = "done"

\* C19: clearCursorBroadcast(editorId, userId) cancels every timer of the pair
\* that is scheduled and has not fired, so that its callback never runs; when
\* the pair has no such timer the call changes no timer.
C19_ClearCancels ==
    [][\A e \in TimerEditors, u \in TimerUsers :
          ClearCall(e, u)
          => IF PendingTimers(TimerId(e, u)) = {}
                 THEN timeouts' = timeouts
                 ELSE \A h \in PendingTimers(TimerId(e, u)) :
                          timeouts'[h].state = "cancelled"
      ]_vars

\* C20: in every reachable state each cursor-broadcast timer that is scheduled
\* and has not fired is the one the timer map records under its key; so a pair
\* has at most one such timer, and clearCursorBroadcast and reset can reach it.
C20_PendingTimersRecorded ==
    \A h \in DOMAIN timeouts :
        timeouts[h].state = "pending"
        => /\ timeouts[h].timerId \in DOMAIN cursorBroadcastTimers
           /\ cursorBroadcastTimers[timeouts[h].timerId] = h

-----------------------------------------------------------------------------
(* C21: initializeEditor on an editor that exists *)

\* the step is a call of initializeEditor on editor e
InitializeCall(e) ==
    /\ ~batch.active
    /\ lastCall'.name = "initializeEditor"
    /\ lastCall'.editorId = e

\* C21: initializeEditor(id, c2) on an editor that already exists changes nothing
\* of it (content, EditorState version and operations, history, version, mode,
\* remote users, snapshot), whatever c2 is, and raises nothing.
C21_InitializeIdempotent ==
    [][\A e \in DOMAIN editorStates :
          InitializeCall(e)
          => /\ editorStates' = editorStates
             /\ operationHistories' = operationHistories
             /\ cursorTrackers' = cursorTrackers
             /\ editorSnapshots' = editorSnapshots
             /\ lastResult' = "ok"
      ]_vars

\* C21 witness: initializeEditor with another content has returned on an editor
\* that has applied an operation, left mode ACTIVE and holds a remote user
C21_Witness ==
    /\ lastCall.name = "initializeEditor"
    /\ Initialized(lastCall.editorId)
    /\ lastCall.content # getEditorContent(lastCall.editorId)
    /\ getEditorVersion(lastCall.editorId) > 0
    /\ getEditorMode(lastCall.editorId) # "active"
    /\ getRemoteUsers(lastCall.editorId) # {}
    /\ HasSnapshot(lastCall.editorId)

-----------------------------------------------------------------------------
(* C22: transformOperation and the operations of the operation's own client *)

\* op transformed against each of ops in turn
RECURSIVE FoldTransform(_, _)
FoldTransform(op, ops) ==
    IF ops = <<>> THEN op ELSE FoldTransform(transform(op, Head(ops)), Tail(ops))

\* the operations of ops that are by another client than op
ByOthers(op, ops) == SelectSeq(ops, LAMBDA a : a.clientId # op.clientId)

\* a call of transformOperation has returned
Transformed == lastCall.name = "transformOperation"

\* C22: transformOperation(id, op, against) skips every against-operation whose
\* clientId is op.clientId: what it returns is op transformed against the
\* operations of the other clients in turn, no OperationConflictEvent names an
\* operation of op's client, and when all against-operations are by op's client
\* it returns op in every field and publishes no event.
C22_OwnClientSkipped ==
    Transformed
    => LET op == lastCall.operation
           against == lastCall.againstOperations
       IN  /\ lastCall.returned = FoldTransform(op, ByOthers(op, against))
           /\ \A k \in 1..Len(published), i \in 1..Len(against) :
                  published[k].event.conflictingOperationId = against[i].id
                  => against[i].clientId # op.clientId
           /\ (\A i \in 1..Len(against) : against[i].clientId = op.clientId)
              => /\ lastCall.returned = op
                 /\ published = <<>>

\* C22 witness: an insert was transformed against two inserts of its own client
\* at its position
C22_Witness ==
    /\ Transformed
    /\ Len(lastCall.againstOperations) = 2
    /\ \A i \in 1..2 :
           /\ lastCall.againstOperations[i].clientId = lastCall.operation.clientId
           /\ lastCall.againstOperations[i].type = "insert"
           /\ lastCall.againstOperations[i].position = lastCall.operation.position
    /\ lastCall.operation.type = "insert"

-----------------------------------------------------------------------------
(* C23: the version of an OperationHistory *)

\* 0 for no operations, and otherwise the largest op.version + 1 among them
VersionOf(operations) ==
    IF operations = <<>> THEN 0
    ELSE CHOOSE n \in {operations[i].version + 1 : i \in 1..Len(operations)} :
             \A i \in 1..Len(operations) : operations[i].version + 1 <= n

VersionInvariant(h) == h.version = VersionOf(h.operations)

-----------------------------------------------------------------------------
(* C24: a frame that cannot be handled *)

\* the step is the handling of an inbound frame
FrameStep ==
    /\ now' = now
    /\ lastCall'.name \in {"ws.on('message')", "handleOperation", "subscribeToDocument",
                           "unsubscribeFromDocument", "markClientAlive"}

\* the frame was dropped: it got no further than the plugin, or the service
\* raised an error on it
FrameDropped ==
    \/ lastCall'.name = "ws.on('message')"
    \/ lastResult' \in {"SessionNotFoundError", "OperationDeniedError", "RateLimitError",
                        "InvalidMessageError"}

\* C24: a frame that is unparseable, fails validation, names another session
\* than the connection's or makes the service raise SessionNotFoundError,
\* OperationDeniedError, RateLimitError or InvalidMessageError is dropped: no
\* transport is closed, nothing is sent, and every registered session stays
\* registered with the subscriptions and the transport it had.
C24_BadFrameKeepsConnection ==
    [][(FrameStep /\ FrameDropped)
       => /\ closed' = <<>>
          /\ sent' = <<>>
          /\ sessionsByDocument' = sessionsByDocument
          /\ \A sid \in DOMAIN clients :
                 /\ sid \in DOMAIN clients'
                 /\ clients'[sid].session.subscribedDocuments
                        = clients[sid].session.subscribedDocuments
                 /\ clients'[sid].transport = clients[sid].transport
      ]_vars

\* C24 witness: an unparseable frame was dropped on a connection whose session
\* is registered and subscribed to a document
C24_Witness ==
    /\ lastCall.name = "ws.on('message')"
    /\ lastCall.form = "unparseable"
    /\ Registered(lastCall.sessionId)
    /\ getClient(lastCall.sessionId).session.subscribedDocuments # <<>>
    /\ getClient(lastCall.sessionId).transport = "open"

\* C24, second witness: an operation frame was refused by the rate limit on a
\* session subscribed to its document
C24_WitnessRateLimited ==
    /\ lastCall.name = "handleOperation"
    /\ lastResult = "RateLimitError"
    /\ Registered(lastCall.sessionId)
    /\ Contains(getClient(lastCall.sessionId).session.subscribedDocuments,
                lastCall.documentId)

-----------------------------------------------------------------------------
(* C25: the version of an editor over time *)

\* the step is an applyOperation on editor e that returns normally
StepAppliesOk(e) == StepApplies(e) /\ lastResult' \in {"ok", "running"}

\* the step is a call of reset on editor e
ResetCall(e) ==
    /\ ~batch.active
    /\ lastCall'.name = "reset"
    /\ lastCall'.editorId = e

\* C25: per editor, the version getEditorVersion returns never goes down but by
\* reset(editorId), which sets it to 0; it goes up by exactly 1 in a step that
\* applies an operation and stays as it is in every other step (an operation
\* or batch refused, transformOperation, setEditorContent, setEditorMode,
\* createSnapshot, initializeEditor again, remote-user and cursor calls).
C25_VersionMonotonic ==
    [][\A e \in DOMAIN editorStates :
          LET v == getEditorVersion(e)
              w == operationHistories'[e].version
          IN  /\ ResetCall(e) => w = 0
              /\ ~ResetCall(e) => w >= v
              /\ StepAppliesOk(e) => w = v + 1
              /\ (~ResetCall(e) /\ ~StepAppliesOk(e)) => w = v
      ]_vars

\* C25 witness: setEditorContent has wiped the EditorState's own version on an
\* editor that had applied two operations, and getEditorVersion still says 2
C25_Witness ==
    /\ lastCall.name = "setEditorContent"
    /\ Initialized(lastCall.editorId)
    /\ editorStates[lastCall.editorId].version = 0
    /\ getEditorVersion(lastCall.editorId) = 2
    /\ getRemoteUsers(lastCall.editorId) # {}

-----------------------------------------------------------------------------
(* C26: the bounds check of EditorState.applyOperation *)

\* EditorState.applyOperation has been called
StateApplied == ot.phase = "applied to state"

\* C26 as claimed: an insert is applied only when 0 <= position <= content.length
\* and a delete only when 0 <= position <= position + length <= content.length;
\* an operation outside these bounds raises InvalidCursorPositionError and
\* leaves content, operations and version as they were; an insert applied makes
\* the content longer by len(content), a delete applied shorter by length.
C26_OutOfBoundsInvalidCursorPosition ==
    StateApplied
    => LET o == ot.operation
           before == ot.before
           r == ot.result
       IN  /\ r.err = "none" => InBounds(o, before.content)
           /\ ~InBounds(o, before.content)
              => /\ r.err = "InvalidCursorPositionError"
                 /\ r.es = before
           /\ (r.err = "none" /\ o.type = "insert")
              => Len(r.es.content) = Len(before.content) + Len(o.content)
           /\ (r.err = "none" /\ o.type = "delete")
              => Len(r.es.content) = Len(before.content) - o.length

\* C26 amended: as claimed in mode ACTIVE; in mode DISCONNECTED the mode is
\* looked at before the bounds and every operation raises OperationApplyError;
\* in every mode an operation that raises leaves content, operations and
\* version as they were, an operation is applied only within the bounds, and
\* an insert or delete applied changes the length by len(content) or -length.
C26_OutOfBoundsRejected ==
    StateApplied
    => LET o == ot.operation
           before == ot.before
           r == ot.result
       IN  /\ r.err = "none" => InBounds(o, before.content)
           /\ r.err # "none" => r.es = before
           /\ ~InBounds(o, before.content)
              => /\ before.mode = "active" => r.err = "InvalidCursorPositionError"
                 /\ before.mode = "disconnected" => r.err = "OperationApplyError"
                 /\ r.err # "none"
           /\ before.mode = "disconnected" => r.err = "OperationApplyError"
           /\ (r.err = "none" /\ o.type = "insert")
              => /\ Len(r.es.content) = Len(before.content) + Len(o.content)
                 /\ r.es.content = SpliceInsert(before.content, o.position, o.content)
           /\ (r.err = "none" /\ o.type = "delete")
              => /\ Len(r.es.content) = Len(before.content) - o.length
                 /\ r.es.content = SpliceDelete(before.content, o.position, o.length)

\* C26 witness: a delete that starts inside the content and ends beyond it was
\* refused in mode ACTIVE
C26_Witness ==
    /\ StateApplied
    /\ ot.before.mode = "active"
    /\ ot.operation.type = "delete"
    /\ ot.operation.position < Len(ot.before.content)
    /\ ot.operation.position + ot.operation.length > Len(ot.before.content)
    /\ ot.result.err = "InvalidCursorPositionError"

-----------------------------------------------------------------------------
(* C27: editor isolation *)

\* the per-editor state of editor b: content, mode and version, history, remote
\* users and snapshot, each as the service's maps hold it (Null where absent)
EditorView(es, hs, cts, snaps, b) ==
    [state    |-> IF b \in DOMAIN es THEN es[b] ELSE Null,
     history  |-> IF b \in DOMAIN hs THEN hs[b] ELSE Null,
     tracker  |-> IF b \in DOMAIN cts THEN cts[b] ELSE Null,
     snapshot |-> IF b \in DOMAIN snaps THEN snaps[b] ELSE Null]

\* the timers of editor b that are scheduled and have not fired
PendingTimersOf(b) ==
    UNION {PendingTimers(TimerId(b, u)) : u \in TimerUsers}

\* the step is a call addressed to editor a
CallAddressedTo(a) ==
    /\ lastCall'.name \in {"initializeEditor", "applyOperation", "addRemoteUser",
                           "createSnapshot", "scheduleCursorBroadcast",
                           "clearCursorBroadcast", "reset"}
    /\ lastCall'.editorId = a

\* C27: no call addressed to editor A changes the content, version, history,
\* mode, remote users or snapshot of a different editor B, nor cancels a
\* pending cursor-broadcast timer of B, also when the id of A is a prefix of
\* the id of B.
C27_EditorsIsolated ==
    [][\A a \in TimerEditors, b \in TimerEditors :
          (a # b /\ CallAddressedTo(a))
          => /\ EditorView(editorStates', operationHistories', cursorTrackers',
                           editorSnapshots', b)
                = EditorView(editorStates, operationHistories, cursorTrackers,
                             editorSnapshots, b)
             /\ \A h \in PendingTimersOf(b) :
                    /\ timeouts'[h].state = "pending"
                    /\ timeouts[h].timerId \in DOMAIN cursorBroadcastTimers'
                    /\ cursorBroadcastTimers'[timeouts[h].timerId] = h
      ]_vars

-----------------------------------------------------------------------------
(* C28: transform against the case table of section 4.1 *)

\* op at another position and with another length, and nothing else changed
Moved(op, position, length) == [op EXCEPT !.position = position, !.length = length]

\* insert against delete: the three rows, read from the top
TableInsertDelete(op, against) ==
    CASE op.position <= against.position -> op
      [] op.position > against.position /\ op.position >= against.position + against.length
             -> Moved(op, op.position - against.length, op.length)
      [] OTHER -> Moved(op, against.position, op.length)

\* delete against insert: the three rows, read from the top
TableDeleteInsert(op, against) ==
    CASE op.position + op.length <= against.position -> op
      [] op.position + op.length > against.position /\ op.position >= against.position
             -> Moved(op, op.position + Len(against.content), op.length)
      [] OTHER -> Moved(op, op.position, op.length + Len(against.content))

\* delete against delete: the six rows as the spans [opStart, opEnd) and
\* [againstStart, againstEnd) lie to each other; the result of every row whose
\* case the two spans are in
TableDeleteDelete(op, against) ==
    LET opStart == op.position
        opEnd == op.position + op.length
        againstStart == against.position
        againstEnd == against.position + against.length
    IN  (IF opEnd <= againstStart THEN {op} ELSE {})
        \cup (IF opStart >= againstEnd
                  THEN {Moved(op, opStart - against.length, op.length)} ELSE {})
        \cup (IF opStart <= againstStart /\ againstEnd <= opEnd
                  THEN {Moved(op, opStart, op.length - against.length)} ELSE {})
        \cup (IF againstStart <= opStart /\ opEnd <= againstEnd
                  THEN {Moved(op, againstStart, 0)} ELSE {})
        \cup (IF opStart < againstStart /\ againstStart < opEnd /\ opEnd <= againstEnd
                  THEN {Moved(op, opStart, op.length - (opEnd - againstStart))} ELSE {})
        \cup (IF againstStart <= opStart /\ opStart < againstEnd /\ againstEnd < opEnd
                  THEN {Moved(op, againstStart, op.length - (againstEnd - opStart))}
                  ELSE {})

\* the rows of the table that say what transform(op, against) is
TableRows(op, against) ==
    CASE op.type = "insert" /\ against.type = "delete" -> {TableInsertDelete(op, against)}
      [] op.type = "delete" /\ against.type = "insert" -> {TableDeleteInsert(op, against)}
      [] op.type = "delete" /\ against.type = "delete" -> TableDeleteDelete(op, against)
      [] OTHER -> {}

\* both transforms of the pair have been computed
PairTransformed == ot.phase \in {"transformed", "applied"}

\* C28: OTTransformer.transform agrees with the case table of section 4.1 for
\* every pair of operations that is not two inserts: the pair is in at least
\* one row and the result is what every row it is in says, with the type,
\* content and clientId of op; a delete contained in against ends at position
\* against.pos with length 0, a right overlap at against.pos with length
\* op.length - (againstEnd - opStart); insert at 5 against delete(0,3) gives
\* position 2.
C28_TransformFollowsTable ==
    /\ PairTransformed
       => /\ ot.A.type = "delete" \/ ot.B.type = "delete"
             => /\ TableRows(ot.A, ot.B) = {ot.tAB}
                /\ TableRows(ot.B, ot.A) = {ot.tBA}
    /\ transform(Op("A", "insert", 5, <<"x">>, 0, ClientC1, 0),
                 Op("B", "delete", 0, <<>>, 3, ClientC2, 0)).position = 2

\* C28 witness: a delete that starts inside the span of against and ends after
\* it was moved to the start of against and kept what lies beyond its end
C28_Witness ==
    /\ PairTransformed
    /\ ot.A.type = "delete"
    /\ ot.B.type = "delete"
    /\ ot.B.position < ot.A.position
    /\ ot.A.position < ot.B.position + ot.B.length
    /\ ot.B.position + ot.B.length < ot.A.position + ot.A.length
    /\ ot.tAB.position = ot.B.position
    /\ ot.tAB.length = ot.A.position + ot.A.length - (ot.B.position + ot.B.length)
    /\ ot.tAB.length > 0

\* a delete that lies strictly inside the span of against became a no-op at
\* the start of against
C28_WitnessContained ==
    /\ PairTransformed
    /\ ot.A.type = "delete"
    /\ ot.B.type = "delete"
    /\ ot.B.position < ot.A.position
    /\ ot.A.length > 0
    /\ ot.A.position + ot.A.length <= ot.B.position + ot.B.length
    /\ ot.tAB.position = ot.B.position
    /\ ot.tAB.length = 0

-----------------------------------------------------------------------------
(* C29: the OperationConflictEvents of transformOperation, step by step *)

\* the operation as it goes into the step against against[i]: transformed
\* against the operations of the other clients before it
BeforeStep(op, against, i) == FoldTransform(op, ByOthers(op, SubSeq(against, 1, i - 1)))

\* the step against against[i] changes the operation it is given
StepChanges(op, against, i) ==
    LET given == BeforeStep(op, against, i)
        result == transform(given, against[i])
    IN  /\ against[i].clientId # op.clientId
        /\ \/ result.position # given.position
           \/ result.length # given.length
           \/ result.content # given.content

\* the OperationConflictEvents published that name against[i]
ConflictEventsNaming(against, i) ==
    {k \in 1..Len(published) :
        /\ published[k].event.type = "OperationConflictEvent"
        /\ published[k].event.conflictingOperationId = against[i].id}

\* C29: transformOperation publishes an OperationConflictEvent naming the
\* against-operation a_i exactly when the transform step against a_i changes
\* the position, length or content of the operation it is given; a step that
\* leaves the already transformed operation as it is publishes no event, also
\* when an earlier step of the call changed it.
C29_ConflictEventPerChangingStep ==
    Transformed
    => LET op == lastCall.operation
           against == lastCall.againstOperations
       IN  \A i \in 1..Len(against) :
               (ConflictEventsNaming(against, i) # {}) <=> StepChanges(op, against, i)

-----------------------------------------------------------------------------
(* C30: the snapshot of an editor *)

getSnapshot(e) == IF HasSnapshot(e) THEN editorSnapshots[e] ELSE Null

\* the step is a call of createSnapshot on editor e
SnapshotCall(e) ==
    /\ ~batch.active
    /\ lastCall'.name = "createSnapshot"
    /\ lastCall'.editorId = e

\* C30: createSnapshot(id, clientId) returns and stores a snapshot whose content
\* and version are getEditorContent(id) and getEditorVersion(id) at the moment
\* of the call; an editor holds at most one snapshot, getSnapshot(id) returns
\* the one created last, and no step but the next createSnapshot or reset
\* of the editor changes it: operations applied afterwards do not.
C30_SnapshotFrozen ==
    [][\A e \in Editors :
          LET after == IF e \in DOMAIN editorSnapshots' THEN editorSnapshots'[e] ELSE Null
          IN  /\ (SnapshotCall(e) /\ Initialized(e))
                 => /\ after = [content |-> getEditorContent(e),
                                version |-> getEditorVersion(e),
                                clientId |-> lastCall'.clientId]
                    /\ lastCall'.returned = after
                    /\ lastResult' = "ok"
              /\ (SnapshotCall(e) /\ ~Initialized(e))
                 => /\ after = getSnapshot(e)
                    /\ lastResult' = "CollaborationDisabledError"
              /\ ResetCall(e) => after = Null
              /\ (~SnapshotCall(e) /\ ~ResetCall(e)) => after = getSnapshot(e)
      ]_vars

\* C30 witness: an operation has been applied to an editor that holds a
\* snapshot, and the snapshot still has the content and version from before
C30_Witness ==
    \E e \in Editors :
        /\ HasSnapshot(e)
        /\ lastCall.name = "applyOperation"
        /\ lastResult = "ok"
        /\ getSnapshot(e).version < getEditorVersion(e)
        /\ getSnapshot(e).content # getEditorContent(e)

-----------------------------------------------------------------------------
(* C31: the cursor transform and the insert transform *)

CursorTransformed == ot.phase = "cursor transformed"

\* C31 as claimed: for every cursor on line 0 at column c and every operation
\* op, transformCursorForOperation(cursor, op).column is the position that
\* transform gives to an insert at offset c transformed against op, whatever
\* client the insert is by; the line is kept, and a cursor on another line is
\* returned as it is.
C31_CursorAsInsert ==
    CursorTransformed
    => /\ ot.result.line = ot.cursor.line
       /\ ot.cursor.line = 0 => ot.result.column = ot.tInsert.position
       /\ ot.cursor.line # 0 => ot.result = ot.cursor

\* the insert at the cursor's offset ties with an insert and wins the tie
InsertWinsTie ==
    /\ ot.operation.type = "insert"
    /\ ot.operation.position = ot.cursor.column
    /\ LexSmaller(ot.insert.clientId, ot.operation.clientId)

\* C31 amended: as claimed but for the tie; a cursor at the position of an
\* insert always moves behind the inserted text, as does an insert there by a
\* client whose id is not smaller than the id of op's client, while an insert
\* by a client with a smaller id stays; a cursor has no client to break the
\* tie with.
C31_CursorAsInsertLosingTies ==
    CursorTransformed
    => /\ ot.result.line = ot.cursor.line
       /\ (ot.cursor.line = 0 /\ ~InsertWinsTie) => ot.result.column = ot.tInsert.position
       /\ (ot.cursor.line = 0 /\ InsertWinsTie)
          => /\ ot.result.column = ot.cursor.column + Len(ot.operation.content)
             /\ ot.tInsert.position = ot.cursor.column
       /\ ot.cursor.line # 0 => ot.result = ot.cursor

\* C31 witness: a cursor inside a deleted range was moved to the start of the
\* range, as the insert at its offset was
C31_Witness ==
    /\ CursorTransformed
    /\ ot.cursor.line = 0
    /\ ot.operation.type = "delete"
    /\ ot.operation.position < ot.cursor.column
    /\ ot.cursor.column < ot.operation.position + ot.operation.length
    /\ ot.result.column = ot.operation.position
    /\ ot.tInsert.position = ot.operation.position

-----------------------------------------------------------------------------
(* C32: when a refused user is allowed again *)

\* the number of the allowed calls of u before its k-th call that lie less
\* than span ms before that call
AllowedWithin(u, k, span) ==
    Cardinality({j \in 1..(k - 1) :
        /\ allowedLog[u][j].allowed
        /\ allowedLog[u][k].at - allowedLog[u][j].at < span})

\* C32 as claimed: whatever calls were made before, isAllowed(u) returns true
\* as soon as fewer than maxPerSecond of u's allowed calls lie within the last
\* 1000 ms and fewer than maxPerMinute of them within the last windowMs; a
\* user with no allowed call during the last windowMs is allowed.
C32_SlidingWindowRecovery ==
    \A u \in DOMAIN allowedLog :
        \A k \in 1..Len(allowedLog[u]) :
            (/\ AllowedWithin(u, k, 1000) < config.maxOperationsPerSecond
             /\ AllowedWithin(u, k, config.windowSizeMs) < config.maxOperationsPerMinute)
            => allowedLog[u][k].allowed

\* C32 amended: isAllowed(u) returns true as soon as fewer than maxPerSecond
\* of u's allowed calls lie within the last 1000 ms and fewer than
\* maxPerMinute of them within the last windowMs + 10000 ms: a timestamp
\* older than windowMs is counted until a call comes that is 10 s or more
\* after the last cleanup.  A user with no allowed call during the last
\* windowMs + 10000 ms is allowed.
C32_RecoveryAfterCleanup ==
    \A u \in DOMAIN allowedLog :
        \A k \in 1..Len(allowedLog[u]) :
            (/\ AllowedWithin(u, k, 1000) < config.maxOperationsPerSecond
             /\ AllowedWithin(u, k, config.windowSizeMs + 10000)
                    < config.maxOperationsPerMinute)
            => allowedLog[u][k].allowed

\* C32 witness: a user at its limit for the window was refused after the
\* window had passed, and allowed once the cleanup had run
C32_Witness ==
    \E u \in DOMAIN allowedLog :
        /\ Len(allowedLog[u]) = 3
        /\ allowedLog[u][1].allowed
        /\ ~allowedLog[u][2].allowed
        /\ allowedLog[u][2].at - allowedLog[u][1].at >= config.windowSizeMs
        /\ allowedLog[u][3].allowed
        /\ allowedLog[u][3].at - allowedLog[u][1].at >= config.windowSizeMs + 10000

-----------------------------------------------------------------------------
(* C33: the limits hold over every interval *)

\* the number of the allowed calls of u up to and with its k-th call that lie
\* less than span ms before that call
AllowedUpTo(u, k, span) ==
    Cardinality({j \in 1..k :
        /\ allowedLog[u][j].allowed
        /\ allowedLog[u][k].at - allowedLog[u][j].at < span})

-----------------------------------------------------------------------------
(* C34: the rate limit of a user under session churn *)

\* the operations of user u on record that were accepted less than a second
\* before the k-th one, that one counted in
AcceptedWithinASecond(k) ==
    Cardinality({j \in 1..k :
        /\ ot.accepted[j].userId = ot.accepted[k].userId
        /\ ot.accepted[k].at - ot.accepted[j].at < 1000})

\* C34: within any interval of one second at most maxPerSecond operations of
\* one userId are accepted and fanned out by handleOperation, counted over all
\* sessions of the user, whatever registerClient and unregisterClient calls
\* for the user's sessions come between them.
C34_NoBypassByChurn ==
    ot.phase = "watching"
    => \A k \in 1..Len(ot.accepted) :
           AcceptedWithinASecond(k) <= config.maxOperationsPerSecond

-----------------------------------------------------------------------------
(* C35: what a refused call leaves behind, and the buckets of other users *)

\* the step is a call of isAllowed(u), through checkAndRecord
LimiterCall(u) ==
    /\ lastCall' = [name |-> "checkAndRecord", userId |-> u]
    /\ now' = now

\* the step is a call of isAllowed(u) that was refused
DeniedCall(u) == LimiterCall(u) /\ lastResult' = "RateLimitError"

\* the times of the calls that may follow a step
LaterTimes == {now + d : d \in {0, 5000, 10000, 15000, 20000}}

\* the bucket of v, or none
Bucket(limits, v) == IF v \in DOMAIN limits THEN limits[v] ELSE Null

\* calls of u leave the bucket of every other user, and what it will be
\* answered, as they were
OthersUntouched(u) ==
    \A v \in QuotaUsers \ {u} :
        /\ Bucket(userLimits', v) = Bucket(userLimits, v)
        /\ \A t \in LaterTimes :
               isAllowed(userLimits', v, t).allowed = isAllowed(userLimits, v, t).allowed

\* a refused call records no timestamp: the timestamps left are among those
\* there were, in their order
NoTimestampRecorded(u) ==
    \E keep \in SUBSET (1..Len(userLimits[u].operationTimestamps)) :
        userLimits'[u].operationTimestamps =
            SelectSeq(userLimits[u].operationTimestamps,
                      LAMBDA ts : \E i \in keep : userLimits[u].operationTimestamps[i] = ts)

\* C35 as claimed: a denied isAllowed(u) call records no timestamp, and never
\* consumes quota or extends the period during which u is blocked: every later
\* call of u is answered as it would have been without the denied call; calls
\* by u never change the verdict or bucket of another user v.
C35_DeniedCallsLeaveNoTrace ==
    [][\A u \in QuotaUsers :
          /\ LimiterCall(u) => OthersUntouched(u)
          /\ DeniedCall(u)
             => /\ NoTimestampRecorded(u)
                /\ \A t \in LaterTimes :
                       isAllowed(userLimits', u, t).allowed
                           = isAllowed(userLimits, u, t).allowed
      ]_vars

\* C35 amended: a denied isAllowed(u) call records no timestamp and consumes
\* no quota, but it runs the cleanup when that is due and so puts off the next
\* one: a call of u less than 10 s after a denied call that cleaned up may be
\* refused where it would have been allowed (a timestamp older than windowMs
\* is still counted), never the other way round; a denied call that did not
\* clean up leaves the bucket as it was, and a call 10 s or more after a
\* denied call is answered as it would have been without it.  Calls by u
\* never change the verdict or bucket of another user v.
C35_DeniedCallsRecordNothing ==
    [][\A u \in QuotaUsers :
          /\ LimiterCall(u) => OthersUntouched(u)
          /\ DeniedCall(u)
             => /\ NoTimestampRecorded(u)
                /\ userLimits'[u].lastCleanupTime = userLimits[u].lastCleanupTime
                   => userLimits'[u] = userLimits[u]
                /\ \A t \in LaterTimes :
                       /\ isAllowed(userLimits', u, t).allowed
                          => isAllowed(userLimits, u, t).allowed
                       /\ t - now >= 10000
                          => isAllowed(userLimits', u, t).allowed
                                 = isAllowed(userLimits, u, t).allowed
      ]_vars

\* C35 witness: u1 has been refused while u2 holds a bucket with a timestamp,
\* and u1's bucket holds the one timestamp of its allowed call
C35_Witness ==
    /\ lastCall = [name |-> "checkAndRecord", userId |-> "u1"]
    /\ lastResult = "RateLimitError"
    /\ "u2" \in DOMAIN userLimits
    /\ Len(userLimits["u2"].operationTimestamps) = 1
    /\ Len(userLimits["u1"].operationTimestamps) = 1
    /\ Len(allowedLog["u1"]) = 3

-----------------------------------------------------------------------------
(* C36: the version of the EditorState and the version of the history *)

\* C36 as claimed: in every reachable state of an initialized editor the
\* EditorState's own version equals the version of the OperationHistory, the
\* one getEditorVersion returns.
C36_VersionsAgree ==
    \A e \in DOMAIN editorStates : editorStates[e].version = getEditorVersion(e)

\* the step is a call of setEditorContent on editor e, which is initialized
SetContentCall(e) ==
    /\ ~batch.active
    /\ lastCall'.name = "setEditorContent"
    /\ lastCall'.editorId = e
    /\ lastResult' = "ok"

\* C36 amended: setEditorContent sets the EditorState's own version to 0 and
\* leaves the version of the history; from then until the next operation is
\* applied or the editor is reset the EditorState says 0 and getEditorVersion
\* what it said before; in every other state the two are equal, and an
\* operation applied or a reset makes them equal.
C36_VersionsAgreeButAfterSetContent ==
    [][\A e \in DOMAIN editorStates' :
          LET own == editorStates'[e].version
              history == operationHistories'[e].version
              apart == e \in DOMAIN editorStates
                       /\ editorStates[e].version # getEditorVersion(e)
          IN  /\ own = history \/ (own = 0 /\ (apart \/ SetContentCall(e)))
              /\ (e \in DOMAIN editorStates /\ SetContentCall(e))
                 => own = 0 /\ history = getEditorVersion(e)
              /\ (e \in DOMAIN editorStates /\ (StepAppliesOk(e) \/ ResetCall(e)))
                 => own = history
      ]_vars

\* C36 witness: after setEditorContent had set the two versions apart, an
\* operation was applied and they are equal again
C36_Witness ==
    \E e \in DOMAIN editorStates :
        /\ lastCall.name = "applyOperation"
        /\ lastResult = "ok"
        /\ editorStates[e].version = getEditorVersion(e)
        /\ getEditorVersion(e) > Len(editorStates[e].operations)

-----------------------------------------------------------------------------
(* C37: a transformed operation can be applied *)

\* the content after B has been applied to S
AfterB == EditorStateApply(NewEditorState(ot.S), ot.B).es.content

\* C37: for every content S and operations A, B of different clients that are
\* both in bounds on S, transform(A, B) is in bounds on the content that
\* applying B to S leaves, and applying it there does not raise
\* InvalidCursorPositionError.
C37_TransformedStaysInBounds ==
    TP1Case
    => /\ InBounds(ot.tAB, AfterB)
       /\ ot.viaB.err # "InvalidCursorPositionError"
       /\ InBounds(ot.tBA, EditorStateApply(NewEditorState(ot.S), ot.A).es.content)
       /\ ot.viaA.err # "InvalidCursorPositionError"

\* C37 witness: a delete that reached to the end of S was transformed against
\* a delete inside its span and applied after it, ending at the end of what
\* was left
C37_Witness ==
    /\ TP1Case
    /\ ot.A.type = "delete"
    /\ ot.B.type = "delete"
    /\ ot.B.length > 0
    /\ ot.A.position < ot.B.position
    /\ ot.A.position + ot.A.length = Len(ot.S)
    /\ ot.B.position + ot.B.length <= Len(ot.S)
    /\ ot.tAB.position + ot.tAB.length = Len(AfterB)
    /\ ot.viaB.err = "none"

-----------------------------------------------------------------------------
(* C38: transform keeps an operation well-formed *)

\* r is op but for position and length, which are not negative
WellFormedFrom(r, op) ==
    /\ r.position >= 0
    /\ r.length >= 0
    /\ r.id = op.id
    /\ r.type = op.type
    /\ r.clientId = op.clientId
    /\ r.version = op.version
    /\ r.content = op.content
    /\ DOMAIN r = DOMAIN op

\* C38: for operations with non-negative position and length,
\* transform(op, against) and transformAgainstMany(op, others) return an
\* operation with position >= 0 and length >= 0 whose id, type, clientId,
\* version and content are those of op; they return in every case, so no
\* OperationTransformError is raised.  The fold is the transform against each
\* of the others in turn.
C38_TransformKeepsWellFormed ==
    ot.phase = "many transformed"
    => /\ WellFormedFrom(ot.first, ot.op)
       /\ WellFormedFrom(ot.result, ot.op)
       /\ ot.result = transform(ot.first, ot.others[2])

\* C38 witness: a delete was cut down to nothing by the first of the others
\* and moved by the second
C38_Witness ==
    /\ ot.phase = "many transformed"
    /\ ot.op.type = "delete"
    /\ ot.op.length > 0
    /\ ot.first.length = 0
    /\ ot.result.length = 0
    /\ ot.result.position # ot.first.position

-----------------------------------------------------------------------------
(* C39 *)

\* the editor the last call reset is one the service holds
AfterResetOf(e) ==
    /\ lastCall.name = "reset"
    /\ lastCall.editorId = e
    /\ Initialized(e)

\* an insert at the start of the document, stamped with version 0
FreshInserts == {o \in Ops : o.type = "insert" /\ o.position = 0 /\ o.version = 0}

\* C39: reset does not un-initialize an editor.  A reset of an initialized
\* editor leaves it initialized, so getEditorContent, getEditorVersion and
\* getRemoteUsers return; its mode is ACTIVE; an operation with version 0 is
\* accepted again; and an initializeEditor with non-empty content that follows
\* leaves the content empty.
C39_ResetKeepsEditor ==
    [][\A e \in Editors :
          /\ (ResetCall(e) /\ Initialized(e))
             => /\ Initialized(e)'
                /\ e \in DOMAIN operationHistories'
                /\ e \in DOMAIN cursorTrackers'
                /\ getEditorContent(e)' = <<>>
                /\ getEditorVersion(e)' = 0
                /\ getEditorMode(e)' = "active"
                /\ \A o \in FreshInserts : ServiceApply(e, o)'.err = "none"
          /\ (/\ AfterResetOf(e)
              /\ lastCall'.name = "applyOperation"
              /\ lastCall'.editorId = e
              /\ lastCall'.operation \in FreshInserts)
             => /\ lastResult' = "ok"
                /\ getEditorVersion(e)' = 1
          /\ (/\ AfterResetOf(e)
              /\ lastCall'.name = "initializeEditor"
              /\ lastCall'.editorId = e
              /\ lastCall'.content # <<>>)
             => /\ lastResult' = "ok"
                /\ getEditorContent(e)' = <<>>
                /\ getEditorVersion(e)' = 0]_vars

\* C39 witness: an editor that was read-only with content and applied
\* operations has been reset and is active and empty, its remote user kept
C39_Witness ==
    /\ AfterResetOf("e1")
    /\ lastCall.afterOperations
    /\ ~lastCall.afterSnapshot
    /\ getEditorMode("e1") = "active"
    /\ getEditorContent("e1") = <<>>
    /\ getRemoteUsers("e1") # {}

-----------------------------------------------------------------------------
(* C40 *)

\* what the heartbeat loop has seen of the current registration of a session
Watch(sid) == ot.watch[sid]

\* C40: heartbeat liveness.  A session for which markClientAlive was called
\* (by a heartbeat frame naming it or by a pong) between every two consecutive
\* ticks has not been closed or unregistered by the heartbeat loop; no session
\* is removed at the first tick after its registration; a session for which
\* markClientAlive was never called is removed by the loop at the second tick
\* after its registration unless it was unregistered before.
C40_HeartbeatLiveness ==
    ot.phase = "heartbeat"
    => \A sid \in RegistrySessions :
           /\ Watch(sid).kept => Watch(sid).droppedAt = 0
           /\ Watch(sid).droppedAt # 1
           /\ (Watch(sid).silent /\ Watch(sid).ticks >= 2)
              => /\ Watch(sid).ticks = 2
                 /\ Watch(sid).droppedAt = 2
                 /\ ~Registered(sid)
           /\ Watch(sid).droppedAt # 0 => ~Registered(sid)

\* C40 witness: after three ticks one session that answered every heartbeat is
\* still registered, the other never answered and was removed at its second
C40_Witness ==
    /\ ot.phase = "heartbeat"
    /\ lastCall.name = "heartbeatTick"
    /\ Watch("s1").ticks = MaxTicks
    /\ Watch("s1").kept
    /\ Registered("s1")
    /\ Watch("s2").silent
    /\ Watch("s2").droppedAt = 2
    /\ ~Registered("s2")

====
